---- MODULE Spec2Model ----
(***************************************************************************)
(* Form 471 -> Form 470 linking agent: the document locator, the field     *)
(* extractor, the registry matcher, the workflow transitions on the Task   *)
(* Store and the two deterministic drivers that run them per backlog item  *)
(* (intelligent_qa_agent.process_single_task, run_qa_agent.process_qa_tasks)*)
(*                                                                         *)
(* Python strings that the code inspects character by character (notes,    *)
(* attachment names, document text, extracted numbers) are sequences of    *)
(* one-character strings; strings the code only passes around or compares  *)
(* as a whole (reasons, error messages, registry URLs) are TLA+ strings.   *)
(***************************************************************************)
EXTENDS Integers, Sequences, FiniteSets, TLC

(***************************************************************************)
(* Python values                                                           *)
(***************************************************************************)
\* Python's None where a character string is expected: a one-element sequence
\* whose element is not a character, so it equals no string.
None == <<"None">>

\* The empty dict {} (a function with an empty domain).
EmptyDict == <<>>

\* dict.get(k): the value, or None when the key is absent.
Get(d, k) == IF k \in DOMAIN d THEN d[k] ELSE None

\* Truth value of a string-or-None: None and '' are falsy.
Truthy(v) == v # None /\ v # <<>>

(***************************************************************************)
(* String literals of the source                                           *)
(***************************************************************************)
L_pdf == <<".", "p", "d", "f">>
L_http == <<"h", "t", "t", "p">>
L_s == <<"s">>
L_colon_slashes == <<":", "/", "/">>
L_slash == <<"/">>
L_underscore == <<"_">>
L_form_471 == <<"f", "o", "r", "m", " ", "4", "7", "1">>
L_471 == <<"4", "7", "1">>
L_form_470 == <<"f", "o", "r", "m", " ", "4", "7", "0">>
L_470 == <<"4", "7", "0">>
L_unknown == <<"u", "n", "k", "n", "o", "w", "n">>
L_Unknown == <<"U", "n", "k", "n", "o", "w", "n">>
L_application_number == <<"a", "p", "p", "l", "i", "c", "a", "t", "i", "o", "n", " ", "n", "u", "m", "b", "e", "r">>
L_billed_entity_name == <<"b", "i", "l", "l", "e", "d", " ", "e", "n", "t", "i", "t", "y", " ", "n", "a", "m", "e">>
L_establishing_fcc_form_470 == <<"e", "s", "t", "a", "b", "l", "i", "s", "h", "i", "n", "g", " ", "f", "c", "c", " ", "f", "o", "r", "m", " ", "4", "7", "0">>
L_establishing == <<"e", "s", "t", "a", "b", "l", "i", "s", "h", "i", "n", "g">>

(***************************************************************************)
(* Character classes and str methods                                       *)
(***************************************************************************)
UpperLetters == <<"A", "B", "C", "D", "E", "F", "G", "H", "I", "J", "K", "L", "M",
                  "N", "O", "P", "Q", "R", "S", "T", "U", "V", "W", "X", "Y", "Z">>
LowerLetters == <<"a", "b", "c", "d", "e", "f", "g", "h", "i", "j", "k", "l", "m",
                  "n", "o", "p", "q", "r", "s", "t", "u", "v", "w", "x", "y", "z">>

\* \d
Digits == {"0", "1", "2", "3", "4", "5", "6", "7", "8", "9"}
\* \s
Whitespace == {" ", "\n", "\t", "\r"}
\* [:\s]
SepChars == Whitespace \cup {":"}

LowerOf ==
    [c \in {UpperLetters[i] : i \in 1..Len(UpperLetters)} |->
        LowerLetters[CHOOSE i \in 1..Len(UpperLetters) : UpperLetters[i] = c]]

LowerChar(c) == IF c \in DOMAIN LowerOf THEN LowerOf[c] ELSE c

\* str.lower()
lower(s) == [i \in 1..Len(s) |-> LowerChar(s[i])]

\* the literal lit stands at position p of s
At(s, p, lit) ==
    /\ p >= 1
    /\ p + Len(lit) - 1 <= Len(s)
    /\ \A k \in 1..Len(lit) : s[p + k - 1] = lit[k]

\* the same under re.IGNORECASE, for a lower-case literal: each character of
\* the text is compared after lowering
AtI(s, p, lit) ==
    /\ p >= 1
    /\ p + Len(lit) - 1 <= Len(s)
    /\ \A k \in 1..Len(lit) : LowerChar(s[p + k - 1]) = lit[k]

\* `sub in s`
Contains(s, sub) == \E p \in 1..(Len(s) + 1) : At(s, p, sub)

\* s.endswith(suf)
EndsWith(s, suf) == Len(suf) <= Len(s) /\ At(s, Len(s) - Len(suf) + 1, suf)

SetMin(S) == CHOOSE x \in S : \A y \in S : x <= y
SetMax(S) == CHOOSE x \in S : \A y \in S : x >= y

\* the index just past the longest run of characters of class cls starting at i
SkipWhile(s, i, cls) ==
    LET stops == {j \in i..Len(s) : s[j] \notin cls}
    IN  IF stops = {} THEN Len(s) + 1 ELSE SetMin(stops)

\* the index just past the longest run of characters outside cls starting at i
SkipUntil(s, i, cls) ==
    LET stops == {j \in i..Len(s) : s[j] \in cls}
    IN  IF stops = {} THEN Len(s) + 1 ELSE SetMin(stops)

\* str.strip()
strip(s) ==
    LET a == SkipWhile(s, 1, Whitespace)
        ends == {j \in a..Len(s) : s[j] \notin Whitespace}
    IN  IF ends = {} THEN <<>> ELSE SubSeq(s, a, SetMax(ends))

\* s.split('/')[-1]
LastSegment(s) ==
    LET cuts == {i \in 1..Len(s) : s[i] = "/"}
    IN  IF cuts = {} THEN s ELSE SubSeq(s, SetMax(cuts) + 1, Len(s))

(***************************************************************************)
(* Document Locator: the pure parts of download_pdf_from_task              *)
(***************************************************************************)
\* IsPdfAttachment with the dot of the suffix forgotten (endswith('pdf')).
IsPdfAttachment_no_dot(att) ==
    LET attachment_name == att.name
    IN  Truthy(attachment_name) /\ EndsWith(lower(attachment_name), <<"p", "d", "f">>)

\* attachment_name and attachment_name.lower().endswith('.pdf')
IsPdfAttachment(att) ==
    LET attachment_name == att.name
    IN  Truthy(attachment_name) /\ EndsWith(lower(attachment_name), L_pdf)

\* Where http[s]?:// standing at p ends (the index after it), 0 if it does not
\* stand there.
SchemeEnd(notes, p) ==
    IF ~AtI(notes, p, L_http) THEN 0
    ELSE IF AtI(notes, p + 4, L_s) /\ AtI(notes, p + 5, L_colon_slashes) THEN p + 8
    ELSE IF AtI(notes, p + 4, L_colon_slashes) THEN p + 7
    ELSE 0

\* The last index of the match of http[s]?://[^\s]+\.pdf that starts at p, 0 if
\* there is none: [^\s]+ is greedy, so the match ends at the last ".pdf" of the
\* whitespace-free run, and [^\s]+ takes at least one character.
PdfUrlEnd(notes, p) ==
    LET q == SchemeEnd(notes, p)
        r == IF q = 0 THEN 0 ELSE SkipUntil(notes, q, Whitespace) - 1
        ends == {e \in 1..r : e - 4 >= q /\ AtI(notes, e - 3, L_pdf)}
    IN  IF q = 0 \/ ends = {} THEN 0 ELSE SetMax(ends)

\* re.findall(r'http[s]?://[^\s]+\.pdf', notes, re.IGNORECASE)[0], the leftmost
\* match, which is all the code uses of the list; None when the list is empty.
first_pdf_url(notes) ==
    LET starts == {p \in 1..Len(notes) : PdfUrlEnd(notes, p) # 0}
    IN  IF starts = {} THEN None
        ELSE SubSeq(notes, SetMin(starts), PdfUrlEnd(notes, SetMin(starts)))

\* os.path.join(temp_dir, f"{task_id}_{name}")
file_path(dir, task_id, name) ==
    dir \o L_slash \o task_id \o L_underscore \o name

(***************************************************************************)
(* Field Extractor: extract_form_info on the decoded text                  *)
(***************************************************************************)
\* form_type_of with the two tests in the other order.
form_type_of_470_first(text) ==
    LET t == lower(text)
    IN  IF Contains(t, L_form_470) \/ Contains(t, L_470) THEN L_470
        ELSE IF Contains(t, L_form_471) \/ Contains(t, L_471) THEN L_471
        ELSE L_unknown

\* The form type, decided first.
form_type_of(text) ==
    LET t == lower(text)
    IN  IF Contains(t, L_form_471) \/ Contains(t, L_471) THEN L_471
        ELSE IF Contains(t, L_form_470) \/ Contains(t, L_470) THEN L_470
        ELSE L_unknown

\* re.search(label + r'[:\s]*(\d+)', text, re.IGNORECASE).group(1) with the match
\* anchored at p, None if the pattern does not match there: after the label the
\* longest run of [:\s], then at least one digit; the group is the whole digit run.
LabelDigitsAt(text, p, label) ==
    IF ~AtI(text, p, label) THEN None
    ELSE LET q == SkipWhile(text, p + Len(label), SepChars)
             e == SkipWhile(text, q, Digits)
         IN  IF e = q THEN None ELSE SubSeq(text, q, e - 1)

\* The same search over the whole text: the leftmost position that matches.
LabelDigits(text, label) ==
    LET starts == {p \in 1..Len(text) : LabelDigitsAt(text, p, label) # None}
    IN  IF starts = {} THEN None ELSE LabelDigitsAt(text, SetMin(starts), label)

\* re.search(r'(\d{n})', text).group(1): the first n digits of the leftmost run
\* of at least n digits, None if there is none.
FirstDigitRun(text, n) ==
    LET starts == {p \in 1..(Len(text) - n + 1) :
                      \A k \in p..(p + n - 1) : text[k] \in Digits}
    IN  IF starts = {} THEN None ELSE SubSeq(text, SetMin(starts), SetMin(starts) + n - 1)

\* The application number: the labelled digit run, else the 9-digit pattern.
application_number_of(text) ==
    LET app_number_match == LabelDigits(text, L_application_number)
    IN  IF app_number_match # None THEN app_number_match
        ELSE FirstDigitRun(text, 9)

\* re.search(r'Billed Entity Name[:\s]*([^\n]+)', text, re.IGNORECASE).group(1)
\* anchored at p, None if no match there. [:\s]* is greedy and [^\n]+ needs one
\* character that is not a newline: the group starts after the separator run,
\* or, when the text ends there, at the last separator that is not a newline
\* (backtracking); it runs to the end of its line.
EntityAt(text, p) ==
    IF ~AtI(text, p, L_billed_entity_name) THEN None
    ELSE LET a == p + Len(L_billed_entity_name)
             q == SkipWhile(text, a, SepChars)
             back == {j \in a..(q - 1) : text[j] # "\n"}
             g == IF q <= Len(text) THEN q
                  ELSE IF back = {} THEN 0 ELSE SetMax(back)
         IN  IF g = 0 THEN None
             ELSE SubSeq(text, g, SkipUntil(text, g, {"\n"}) - 1)

\* The billed entity name: the stripped group, "Unknown" without a match.
billed_entity_name_of(text) ==
    LET starts == {p \in 1..Len(text) : EntityAt(text, p) # None}
    IN  IF starts = {} THEN L_Unknown ELSE strip(EntityAt(text, SetMin(starts)))

\* re.search(r'Establishing.*Form 470[:\s]*(\d+)', text, re.IGNORECASE).group(1)
\* anchored at p: "." matches no newline and ".*" is greedy, so the last
\* "Form 470" of the line that is followed by [:\s]*\d+ is the one taken.
LooseEstablishingAt(text, p) ==
    IF ~AtI(text, p, L_establishing) THEN None
    ELSE LET a == p + Len(L_establishing)
             eol == SkipUntil(text, a, {"\n"})
             fs == {f \in a..(eol - Len(L_form_470)) :
                       LabelDigitsAt(text, f, L_form_470) # None}
         IN  IF fs = {} THEN None ELSE LabelDigitsAt(text, SetMax(fs), L_form_470)

LooseEstablishing(text) ==
    LET starts == {p \in 1..Len(text) : LooseEstablishingAt(text, p) # None}
    IN  IF starts = {} THEN None ELSE LooseEstablishingAt(text, SetMin(starts))

\* establishing_form470_number_of without the test of the form type.
establishing_form470_number_of_any_type(text, form_type) ==
    LET m1 == LabelDigits(text, L_establishing_fcc_form_470)
        m2 == LooseEstablishing(text)
        m3 == FirstDigitRun(text, 15)
    IN  IF m1 # None THEN m1
        ELSE IF m2 # None THEN m2
        ELSE m3

\* The establishing Form 470 number of a Form 471: three patterns in order.
establishing_form470_number_of(text, form_type) ==
    IF form_type # L_471 THEN None
    ELSE LET m1 == LabelDigits(text, L_establishing_fcc_form_470)
             m2 == LooseEstablishing(text)
             m3 == FirstDigitRun(text, 15)
         IN  IF m1 # None THEN m1
             ELSE IF m2 # None THEN m2
             ELSE m3

\* What the PDF decoder gives when opening or decoding the file raises (a value
\* that is no text).
DecodeRaises == <<"raise">>

\* extract_form_info, given what the PDF decoder returned for the file: the
\* text of its pages, or DecodeRaises.
extract_form_info(decoded) ==
    IF decoded = DecodeRaises THEN EmptyDict
    ELSE LET text == decoded
             form_type == form_type_of(text)
             application_number == application_number_of(text)
             billed_entity_name == billed_entity_name_of(text)
             establishing_form470_number ==
                 establishing_form470_number_of(text, form_type)
             form_info == [application_number |-> application_number,
                           form_type |-> form_type,
                           billed_entity_name |-> billed_entity_name]
         IN  IF application_number = None THEN EmptyDict
             ELSE IF Truthy(establishing_form470_number)
                  THEN [k \in DOMAIN form_info \cup {"establishing_form470_number"} |->
                           IF k = "establishing_form470_number"
                           THEN establishing_form470_number ELSE form_info[k]]
                  ELSE form_info

(***************************************************************************)
(* Registry Matcher: search_form470                                        *)
(***************************************************************************)
RegistryUrl == "https://opendata.usac.org/resource/jt8s-3q52.json"

\* search_number_of with the form-type test dropped.
search_number_of_any_type(form_info) ==
    IF Truthy(Get(form_info, "establishing_form470_number"))
    THEN Get(form_info, "establishing_form470_number")
    ELSE Get(form_info, "application_number")

\* The number searched for: the establishing Form 470 number of a Form 471
\* that has one, else the application number.
search_number_of(form_info) ==
    IF Get(form_info, "form_type") = L_471
       /\ Truthy(Get(form_info, "establishing_form470_number"))
    THEN Get(form_info, "establishing_form470_number")
    ELSE Get(form_info, "application_number")

\* registry_requests issuing the GET whether or not there is a search number.
registry_requests_always(form_info) ==
    <<[url |-> RegistryUrl,
       where_field |-> "application_number",
       where_value |-> search_number_of(form_info)]>>

\* The registry requests search_form470 issues for form_info: none without a
\* search number, else one GET with $where application_number='<search_number>'.
registry_requests(form_info) ==
    LET search_number == search_number_of(form_info)
    IN  IF ~Truthy(search_number) THEN <<>>
        ELSE <<[url |-> RegistryUrl,
                where_field |-> "application_number",
                where_value |-> search_number]>>

\* The dict returned by the except branch; message is str(e).
search_exception_result(form_info, message) ==
    [found |-> FALSE,
     search_number |->
         IF Truthy(Get(form_info, "establishing_form470_number"))
         THEN Get(form_info, "establishing_form470_number")
         ELSE Get(form_info, "application_number"),
     error |-> message]

\* first_record taking data[-1].
first_record_last(data) == data[Len(data)]

\* data[0], the record inspected
first_record(data) == data[1]

\* The dicts returned on a 200 response: a record with a URL, a record
\* without one, no record; and on any other status.
found_result(form470_url, search_number, form470_record) ==
    [found |-> TRUE,
     form470_url |-> form470_url,
     search_number |-> search_number,
     record |-> form470_record]

\* no_url_result with the (empty) URL of the record passed on.
no_url_result_with_url(search_number) ==
    [found |-> FALSE, form470_url |-> "", search_number |-> search_number,
     error |-> "No URL in record"]

no_url_result(search_number) ==
    [found |-> FALSE, search_number |-> search_number, error |-> "No URL in record"]

\* no_record_result with an error message added.
no_record_result_with_error(search_number) ==
    [found |-> FALSE, search_number |-> search_number, error |-> "No Form 470 found"]

no_record_result(search_number) ==
    [found |-> FALSE, search_number |-> search_number]

api_error_result(search_number, status_code) ==
    [found |-> FALSE,
     search_number |-> search_number,
     error |-> "API error: " \o ToString(status_code)]

\* form470_record.get('form_pdf', '')
form_pdf_of(form470_record) ==
    IF "form_pdf" \in DOMAIN form470_record THEN form470_record.form_pdf ELSE ""

\* search_form470 given the registry's answer resp to the request (unused when
\* no request is issued): requests.get raises, or a response with a status
\* code whose json() raises or gives the list data.
search_form470(form_info, resp) ==
    LET search_number == search_number_of(form_info)
    IN  IF ~Truthy(search_number)
        THEN [found |-> FALSE, error |-> "No search number found"]
        ELSE IF resp.raises
        THEN search_exception_result(form_info, resp.message)
        ELSE IF resp.status_code = 200
        THEN IF resp.json_raises
             THEN search_exception_result(form_info, resp.message)
             ELSE LET data == resp.data
                  IN  IF data # <<>>
                      THEN LET form470_record == first_record(data)
                               form470_url == form_pdf_of(form470_record)
                           IN  IF form470_url # ""
                               THEN found_result(form470_url, search_number,
                                                 form470_record)
                               ELSE no_url_result(search_number)
                      ELSE no_record_result(search_number)
        ELSE api_error_result(search_number, resp.status_code)

(***************************************************************************)
(* The Task Store (Asana): project sections, items, their comments         *)
(***************************************************************************)
L_qa == <<"q", "a">>
L_processing == <<"p", "r", "o", "c", "e", "s", "s", "i", "n", "g">>
L_manual_follow_up == <<"m", "a", "n", "u", "a", "l", " ", "f", "o", "l", "l", "o", "w", "-", "u", "p">>
L_issues == <<"i", "s", "s", "u", "e", "s">>

\* The section lists of the projects the agent is run against.
Layouts ==
    << \* the layout the docstrings name
       << <<"Q", "A">>, <<"Q", "A", " ", "-", " ", "P", "r", "o", "c", "e", "s", "s", "i", "n", "g">>, <<"Q", "A", " ", "-", " ", "M", "a", "n", "u", "a", "l", " ", "F", "o", "l", "l", "o", "w", "-", "u", "p", " ", "R", "e", "q", "u", "i", "r", "e", "d">>, <<"Q", "A", " ", "-", " ", "I", "s", "s", "u", "e", "s">> >>,
       \* a project with no Processing and no Issues section
       << <<"B", "a", "c", "k", "l", "o", "g">>, <<"Q", "A">>, <<"Q", "A", " ", "-", " ", "M", "a", "n", "u", "a", "l", " ", "F", "o", "l", "l", "o", "w", "-", "u", "p", " ", "R", "e", "q", "u", "i", "r", "e", "d">>, <<"D", "o", "n", "e">> >>,
       \* a section whose name holds several keywords comes first
       << <<"q", "a", " ", "i", "s", "s", "u", "e", "s", " ", "p", "r", "o", "c", "e", "s", "s", "i", "n", "g">>, <<"Q", "A">>, <<"Q", "A", " ", "-", " ", "M", "a", "n", "u", "a", "l", " ", "F", "o", "l", "l", "o", "w", "-", "u", "p", " ", "R", "e", "q", "u", "i", "r", "e", "d">>,
          <<"Q", "A", " ", "-", " ", "I", "s", "s", "u", "e", "s">> >> >>

\* find_section taking the last matching section instead of the first.
find_section_last(sections, keyword) ==
    LET hits == {s \in 1..Len(sections) :
                    /\ Contains(lower(sections[s]), L_qa)
                    /\ Contains(lower(sections[s]), keyword)}
    IN  IF hits = {} THEN 0 ELSE SetMax(hits)

\* The first section whose lowered name contains 'qa' and keyword; 0 if none
\* (the `for section in sections: ... break` loops).
find_section(sections, keyword) ==
    LET hits == {s \in 1..Len(sections) :
                    /\ Contains(lower(sections[s]), L_qa)
                    /\ Contains(lower(sections[s]), keyword)}
    IN  IF hits = {} THEN 0 ELSE SetMin(hits)

\* The sections whose lowered name is exactly 'qa' (the backlog).
IsQaSection(sections, s) == s # 0 /\ lower(sections[s]) = L_qa

\* A comment on an item: the f-string used and the value interpolated into it.
Comment(template, value) == [template |-> template, value |-> value]

AddComment(store, task_id, comment) ==
    [store EXCEPT !.comments[task_id] = Append(@, comment)]

AddTask(store, section, task_id) ==
    [store EXCEPT !.section[task_id] = section]

\* move_task_to_processing. raises names the client calls that raise when
\* reached: find (sections.find_by_project), move (sections.add_task),
\* comment (tasks.add_comment). The result: the returned value and the store.
move_task_to_processing(store, sections, task_id, raises) ==
    LET processing_section == find_section(sections, L_processing)
    IN  IF raises.find THEN [ret |-> FALSE, store |-> store]
        ELSE IF processing_section = 0 THEN [ret |-> FALSE, store |-> store]
        ELSE IF ~raises.move
        THEN [ret |-> TRUE, store |-> AddTask(store, processing_section, task_id)]
        ELSE IF raises.comment THEN [ret |-> FALSE, store |-> store]
        ELSE [ret |-> TRUE,
              store |-> AddComment(store, task_id,
                                   Comment("Task moved to Processing (simulated)", ""))]

\* move_task_to_manual_followup: a failed move is only logged; the comment
\* with the reason follows in both cases.
move_task_to_manual_followup(store, sections, task_id, reason, raises) ==
    LET manual_section == find_section(sections, L_manual_follow_up)
        moved == IF raises.move THEN store ELSE AddTask(store, manual_section, task_id)
    IN  IF raises.find THEN [ret |-> FALSE, store |-> store]
        ELSE IF manual_section = 0 THEN [ret |-> FALSE, store |-> store]
        ELSE IF raises.comment THEN [ret |-> FALSE, store |-> moved]
        ELSE [ret |-> TRUE,
              store |-> AddComment(moved, task_id,
                                   Comment("Task moved to Manual Follow-up Required", reason))]

\* move_task_to_issues returning True although the comment could not be added.
move_task_to_issues_ignoring_comment(store, sections, task_id, issue_reason, raises) ==
    LET issues_section == find_section(sections, L_issues)
        moved == IF raises.move THEN store ELSE AddTask(store, issues_section, task_id)
    IN  IF raises.find THEN [ret |-> FALSE, store |-> store]
        ELSE IF issues_section = 0 THEN [ret |-> FALSE, store |-> store]
        ELSE IF raises.comment THEN [ret |-> TRUE, store |-> moved]
        ELSE [ret |-> TRUE,
              store |-> AddComment(moved, task_id,
                                   Comment("Task moved to Issues section", issue_reason))]

\* move_task_to_issues: the same shape, for the Issues section.
move_task_to_issues(store, sections, task_id, issue_reason, raises) ==
    LET issues_section == find_section(sections, L_issues)
        moved == IF raises.move THEN store ELSE AddTask(store, issues_section, task_id)
    IN  IF raises.find THEN [ret |-> FALSE, store |-> store]
        ELSE IF issues_section = 0 THEN [ret |-> FALSE, store |-> store]
        ELSE IF raises.comment THEN [ret |-> FALSE, store |-> moved]
        ELSE [ret |-> TRUE,
              store |-> AddComment(moved, task_id,
                                   Comment("Task moved to Issues section", issue_reason))]

\* mark_task_complete with the URL left out of the comment.
mark_task_complete_no_url(store, task_id, form470_url, raises) ==
    LET updated == [store EXCEPT !.completed[task_id] = TRUE]
    IN  IF raises.update THEN [ret |-> FALSE, store |-> store]
        ELSE IF raises.comment THEN [ret |-> FALSE, store |-> updated]
        ELSE [ret |-> TRUE,
              store |-> AddComment(updated, task_id,
                                   Comment("Task completed successfully!", ""))]

\* mark_task_complete: tasks.update(completed=True), then the comment with the
\* Form 470 URL. raises: update, comment.
mark_task_complete(store, task_id, form470_url, raises) ==
    LET updated == [store EXCEPT !.completed[task_id] = TRUE]
    IN  IF raises.update THEN [ret |-> FALSE, store |-> store]
        ELSE IF raises.comment THEN [ret |-> FALSE, store |-> updated]
        ELSE [ret |-> TRUE,
              store |-> AddComment(updated, task_id,
                                   Comment("Task completed successfully!", form470_url))]

\* create_manual_review_subtask with a guard: nothing is created when the item
\* already has a sub-task.
create_manual_review_subtask_once(store, task_id, form_info, raises, workspace) ==
    LET subtask_data ==
            [parent |-> task_id,
             application_number |-> Get(form_info, "application_number"),
             form_type |-> Get(form_info, "form_type"),
             billed_entity_name |-> Get(form_info, "billed_entity_name")]
    IN  IF raises.find THEN [ret |-> FALSE, store |-> store]
        ELSE IF ~workspace THEN [ret |-> FALSE, store |-> store]
        ELSE IF \E i \in DOMAIN store.subtasks : store.subtasks[i].parent = task_id
        THEN [ret |-> TRUE, store |-> store]
        ELSE IF raises.create THEN [ret |-> FALSE, store |-> store]
        ELSE [ret |-> TRUE,
              store |-> [store EXCEPT !.subtasks = Append(@, subtask_data)]]

\* create_manual_review_subtask: reads the parent task and the project, then
\* creates the sub-task. raises: find (either read), create; workspace says
\* whether the project carries a workspace gid.
create_manual_review_subtask(store, task_id, form_info, raises, workspace) ==
    LET subtask_data ==
            [parent |-> task_id,
             application_number |->
                 IF "application_number" \in DOMAIN form_info
                 THEN form_info.application_number ELSE L_Unknown,
             form_type |->
                 IF "form_type" \in DOMAIN form_info
                 THEN form_info.form_type ELSE L_Unknown,
             billed_entity_name |->
                 IF "billed_entity_name" \in DOMAIN form_info
                 THEN form_info.billed_entity_name ELSE L_Unknown]
    IN  IF raises.find THEN [ret |-> FALSE, store |-> store]
        ELSE IF ~workspace THEN [ret |-> FALSE, store |-> store]
        ELSE IF raises.create THEN [ret |-> FALSE, store |-> store]
        ELSE [ret |-> TRUE,
              store |-> [store EXCEPT !.subtasks = Append(@, subtask_data)]]

\* get_qa_tasks: the tasks of the project, in project order, that sit in a
\* section named 'qa'; [] when the client raises.
get_qa_tasks(store, sections, raises) ==
    IF raises THEN <<>>
    ELSE LET RECURSIVE Scan(_)
             Scan(t) ==
                 IF t > Len(store.section) THEN <<>>
                 ELSE (IF IsQaSection(sections, store.section[t]) THEN <<t>> ELSE <<>>)
                      \o Scan(t + 1)
         IN  Scan(1)

(***************************************************************************)
(* The items, documents and registry answers the model is run against      *)
(***************************************************************************)
\* An attachment descriptor: its name and download_url (None when absent).
Att(name, download_url) == [name |-> name, download_url |-> download_url]

\* A work item as tasks.find_by_id returns it: notes and attachments.
Item(notes, attachments) == [notes |-> notes, attachments |-> attachments]

\* Scenario A of add_qa_task.py: a .pdf URL in the notes, no attachment
ItemUrlInNotes == Item(<<"s", "e", "e", " ", "h", "t", "t", "p", ":", "/", "/", "h", "/", "a", ".", "p", "d", "f">>, <<>>)
\* Scenario B: no attachment, no URL
ItemNoPdf == Item(<<"n", "o", " ", "p", "d", "f", " ", "h", "e", "r", "e">>, <<>>)
\* a .pdf attachment and a .pdf URL in the notes
ItemAttachmentAndUrl ==
    Item(<<"a", "l", "s", "o", " ", "h", "t", "t", "p", "s", ":", "/", "/", "H", "/", "B", ".", "P", "D", "F", "?", "v", "=", "2", " ", "e", "n", "d">>, <<Att(<<"a", ".", "p", "d", "f">>, <<"u", "1">>)>>)
\* a non-PDF attachment, a PDF without download_url, a second PDF; empty notes
ItemTwoPdfAttachments ==
    Item(<<>>, <<Att(<<"x", ".", "t", "x", "t">>, <<"u", "1">>), Att(<<"N", ".", "P", "D", "F">>, None), Att(<<"b", ".", "p", "d", "f">>, <<"u", "2">>),
                 Att(<<"a", ".", "p", "d", "f">>, <<"u", "3">>)>>)
\* names and URLs that only look like PDFs
ItemLookAlikes ==
    Item(<<"f", "t", "p", ":", "/", "/", "h", "/", "a", ".", "p", "d", "f", " ", "h", "t", "t", "p", ":", "/", "/", "h", "/", "a", ".", "d", "o", "c">>, <<Att(<<"p", "d", "f">>, <<"u", "1">>), Att(<<>>, <<"u", "2">>)>>)

\* The backlogs (project task lists, in project order) the model starts from.
Worlds ==
    << <<ItemUrlInNotes>>,
       <<ItemNoPdf, ItemLookAlikes>>,
       <<ItemAttachmentAndUrl>>,
       <<ItemTwoPdfAttachments>> >>

\* The gid of task t, a digit string.
gid(t) == <<(<<"1", "2", "3", "4", "5", "6", "7", "8", "9">>)[t]>>

\* What the PDF decoder returns for each document the host can serve.
Docs ==
    << <<"F", "C", "C", " ", "F", "o", "r", "m", " ", "4", "7", "1", "\n", "A", "p", "p", "l", "i", "c", "a", "t", "i", "o", "n", " ", "N", "u", "m", "b", "e", "r", ":", " ", "2", "5", "1", "0", "4", "3", "3", "2", "7", "\n", "B", "i", "l", "l", "e", "d", " ", "E", "n", "t", "i", "t", "y", " ", "N", "a", "m", "e", ":", " ", "A", "c", "m", "e", " ", "S", "c", "h", "o", "o", "l", "\n", "E", "s", "t", "a", "b", "l", "i", "s", "h", "i", "n", "g", " ", "F", "C", "C", " ", "F", "o", "r", "m", " ", "4", "7", "0", ":", " ", "1", "2", "3", "4", "5", "6", "7", "8", "9", "0", "1", "2", "3", "4", "5">>,
       <<"F", "o", "r", "m", " ", "4", "7", "1", " ", "A", "p", "p", "l", "i", "c", "a", "t", "i", "o", "n", " ", "N", "u", "m", "b", "e", "r", ":", " ", "2", "5", "1", "0", "4", "3", "3", "2", "7">>,
       <<"F", "C", "C", " ", "F", "o", "r", "m", " ", "4", "7", "0", " ", "A", "p", "p", "l", "i", "c", "a", "t", "i", "o", "n", " ", "N", "u", "m", "b", "e", "r", ":", " ", "1", "8", "0", "0", "1", "2", "3", "4", "5">>,
       <<"I", "n", "v", "o", "i", "c", "e", " ", "A", "p", "p", "l", "i", "c", "a", "t", "i", "o", "n", " ", "N", "u", "m", "b", "e", "r", ":", " ", "5", "5", " ", "B", "i", "l", "l", "e", "d", " ", "E", "n", "t", "i", "t", "y", " ", "N", "a", "m", "e", ":", " ", "A", "c", "m", "e">>,
       <<"F", "o", "r", "m", " ", "4", "7", "1", " ", "(", "s", "c", "a", "n", "n", "e", "d", " ", "i", "m", "a", "g", "e", ")">>,
       DecodeRaises >>

\* What the document host can answer to one GET: requests.get raises, or a
\* response with a status code and, with 200, the content (an index of Docs).
FetchOutcomes ==
    {[raises |-> TRUE, status_code |-> 0, content |-> 0],
     [raises |-> FALSE, status_code |-> 404, content |-> 0]}
    \cup {[raises |-> FALSE, status_code |-> 200, content |-> c] : c \in 1..Len(Docs)}

RegistryResponse(raises, message, status_code, json_raises, data) ==
    [raises |-> raises, message |-> message, status_code |-> status_code,
     json_raises |-> json_raises, data |-> data]

\* What the registry can answer to one GET.
RegistryResponses ==
    {RegistryResponse(TRUE, "Connection refused", 0, FALSE, <<>>),
     RegistryResponse(FALSE, "", 500, FALSE, <<>>),
     RegistryResponse(FALSE, "Expecting value", 200, TRUE, <<>>),
     RegistryResponse(FALSE, "", 200, FALSE, <<>>),
     RegistryResponse(FALSE, "", 200, FALSE, <<[form_pdf |-> "http://x/y.pdf"]>>),
     RegistryResponse(FALSE, "", 200, FALSE,
                      <<[form_pdf |-> "http://x/y.pdf"], [form_pdf |-> "http://x/z.pdf"]>>),
     RegistryResponse(FALSE, "", 200, FALSE,
                      <<[form_pdf |-> "http://x/z.pdf"], [form_pdf |-> ""]>>),
     RegistryResponse(FALSE, "", 200, FALSE,
                      <<[form_pdf |-> ""], [form_pdf |-> "http://x/y.pdf"]>>),
     RegistryResponse(FALSE, "", 200, FALSE,
                      <<[application_number |-> "1"], [form_pdf |-> "http://x/y.pdf"]>>)}

(***************************************************************************)
(* Document Locator: download_pdf_from_task                                *)
(***************************************************************************)
\* os.getenv('TEMP_DOWNLOAD_DIR', '/tmp/agno_pdfs')
temp_dir == <<"/", "t", "m", "p", "/", "a", "g", "n", "o", "_", "p", "d", "f", "s">>

\* WriteFile keeping what was stored under the path before.
WriteFile_accumulating(files, path, content) ==
    files \cup {[path |-> path, content |-> content]}

\* open(file_path, 'wb').write(content): the file is created or overwritten.
WriteFile(files, path, content) ==
    {f \in files : f.path # path} \cup {[path |-> path, content |-> content]}

FetchOk(outcome) == ~outcome.raises /\ outcome.status_code = 200

\* The PDF attachments the loop fetches, in list order: the name ends in .pdf
\* and a download_url is there.
FetchedAttachments(task) ==
    SelectSeq(task.attachments, LAMBDA a : IsPdfAttachment(a) /\ Truthy(a.download_url))

\* The .pdf URL taken from the notes (pdf_urls[0]), None when the notes are
\* empty or hold none.
NotesPdfUrl(task) ==
    IF task.notes # <<>> THEN first_pdf_url(task.notes) ELSE None

\* How many GETs download_pdf_from_task can issue for the task at most.
MaxFetches(task) ==
    Len(FetchedAttachments(task)) + (IF NotesPdfUrl(task) # None THEN 1 ELSE 0)

\* download_pdf_from_task. find_raises: tasks.find_by_id raises. outcomes[j]
\* is the host's answer to the j-th GET issued. The result: the returned path
\* (None for no document), the GETs issued and the temporary area.
\* A failed attachment GET is only logged and the loop goes on to the next
\* attachment and then to the notes; a failed notes GET returns None.
download_pdf_from_task(task, task_id, files, find_raises, outcomes) ==
    LET atts == FetchedAttachments(task)
        n == Len(atts)
        hits == {j \in 1..n : FetchOk(outcomes[j])}
        tried == IF hits = {} THEN n ELSE SetMin(hits)
        att_fetches == [j \in 1..tried |->
                           [url |-> atts[j].download_url, outcome |-> outcomes[j]]]
        pdf_url == NotesPdfUrl(task)
    IN  IF find_raises THEN [ret |-> None, fetches |-> <<>>, files |-> files]
        ELSE IF hits # {}
        THEN LET path == file_path(temp_dir, task_id, atts[tried].name)
             IN  [ret |-> path, fetches |-> att_fetches,
                  files |-> WriteFile(files, path, outcomes[tried].content)]
        ELSE IF pdf_url # None
        THEN LET response == outcomes[n + 1]
                 path == file_path(temp_dir, task_id, LastSegment(pdf_url))
                 all == Append(att_fetches, [url |-> pdf_url, outcome |-> response])
             IN  IF FetchOk(response)
                 THEN [ret |-> path, fetches |-> all,
                       files |-> WriteFile(files, path, response.content)]
                 ELSE [ret |-> None, fetches |-> all, files |-> files]
        ELSE [ret |-> None, fetches |-> att_fetches, files |-> files]

(***************************************************************************)
(* The two deterministic drivers                                           *)
(***************************************************************************)
\* process_single_task_if_pdf_path with the else branch (the move to Issues) lost.
process_single_task_if_pdf_path_no_else(pdf_path_) ==
    IF Truthy(pdf_path_) THEN "extract_form_info" ELSE "return"

\* The branches of process_single_task: `if pdf_path:`,
\* `if form_info and form_info.get('form_type') == '471':`,
\* `if search_result.get('found'):`.
process_single_task_if_pdf_path(pdf_path_) ==
    IF Truthy(pdf_path_) THEN "extract_form_info" ELSE "move_task_to_issues"

process_single_task_if_form_info(form_info_) ==
    IF DOMAIN form_info_ # {} /\ Get(form_info_, "form_type") = L_471
    THEN "search_form470" ELSE "move_task_to_issues"

process_single_task_if_found(search_result_) ==
    IF search_result_.found THEN "mark_task_complete"
    ELSE "move_task_to_manual_followup"

\* intelligent_qa_agent.process_single_task: the stage called next once the
\* call `at` has returned, "return" when the function returns.
process_single_task(at, pdf_path_, form_info_, search_result_) ==
    CASE at = "move_task_to_processing" -> "download_pdf_from_task"
      [] at = "download_pdf_from_task" -> process_single_task_if_pdf_path(pdf_path_)
      [] at = "extract_form_info" -> process_single_task_if_form_info(form_info_)
      [] at = "search_form470" -> process_single_task_if_found(search_result_)
      [] at = "mark_task_complete" -> "return"
      [] at = "move_task_to_manual_followup" -> "create_manual_review_subtask"
      [] at = "create_manual_review_subtask" -> "return"
      [] at = "move_task_to_issues" -> "return"

\* The label process_single_task returns after its last stage call `at`:
\* `return "COMPLETED"`, `return "MANUAL_FOLLOWUP"`, `return "ISSUES"`. The
\* value the stage call returned is not looked at.
process_single_task_result(at) ==
    CASE at = "mark_task_complete" -> "COMPLETED"
      [] at = "create_manual_review_subtask" -> "MANUAL_FOLLOWUP"
      [] at = "move_task_to_issues" -> "ISSUES"

\* The reason process_single_task passes to move_task_to_issues.
process_single_task_issue_reason(pdf_path_) ==
    IF Truthy(pdf_path_) THEN "Not a Form 471 or extraction failed"
    ELSE "No PDF found or download failed"

\* The reason process_single_task passes to move_task_to_manual_followup.
process_single_task_followup_reason(search_result_) ==
    "Form 470 not found in USAC database"

\* The branches of run_qa_agent.process_qa_tasks: `if pdf_path:`,
\* `if form_info:`, `if search_result.get('found'):`.
process_qa_tasks_if_pdf_path(pdf_path_) ==
    IF Truthy(pdf_path_) THEN "extract_form_info" ELSE "move_task_to_issues"

process_qa_tasks_if_form_info(form_info_) ==
    IF DOMAIN form_info_ # {} THEN "search_form470" ELSE "move_task_to_issues"

process_qa_tasks_if_found(search_result_) ==
    IF search_result_.found THEN "mark_task_complete"
    ELSE "move_task_to_manual_followup"

\* process_qa_tasks sending the item to Issues after its sub-task was created.
process_qa_tasks_issues_after_subtask(at, pdf_path_, form_info_, search_result_) ==
    CASE at = "move_task_to_processing" -> "download_pdf_from_task"
      [] at = "download_pdf_from_task" -> process_qa_tasks_if_pdf_path(pdf_path_)
      [] at = "extract_form_info" -> process_qa_tasks_if_form_info(form_info_)
      [] at = "search_form470" -> process_qa_tasks_if_found(search_result_)
      [] at = "mark_task_complete" -> "return"
      [] at = "move_task_to_manual_followup" -> "create_manual_review_subtask"
      [] at = "create_manual_review_subtask" -> "move_task_to_issues"
      [] at = "move_task_to_issues" -> "return"

\* run_qa_agent.process_qa_tasks, the body of its loop over the backlog: the
\* stage called next once the call `at` has returned.
process_qa_tasks(at, pdf_path_, form_info_, search_result_) ==
    CASE at = "move_task_to_processing" -> "download_pdf_from_task"
      [] at = "download_pdf_from_task" -> process_qa_tasks_if_pdf_path(pdf_path_)
      [] at = "extract_form_info" -> process_qa_tasks_if_form_info(form_info_)
      [] at = "search_form470" -> process_qa_tasks_if_found(search_result_)
      [] at = "mark_task_complete" -> "return"
      [] at = "move_task_to_manual_followup" -> "create_manual_review_subtask"
      [] at = "create_manual_review_subtask" -> "return"
      [] at = "move_task_to_issues" -> "return"

\* The reason process_qa_tasks passes to move_task_to_issues.
process_qa_tasks_issue_reason(pdf_path_) ==
    IF Truthy(pdf_path_) THEN "Failed to extract form information from PDF"
    ELSE "No PDF found or download failed"

\* process_qa_tasks_followup_reason passing the error of the search result on.
process_qa_tasks_followup_reason_error(search_result_) ==
    IF "error" \in DOMAIN search_result_ THEN search_result_.error
    ELSE "Form 470 not found in USAC database"

\* The reason process_qa_tasks passes to move_task_to_manual_followup.
process_qa_tasks_followup_reason(search_result_) ==
    "Form 470 not found in USAC database"

Drivers == {"intelligent_qa_agent", "run_qa_agent"}

\* The program whose stage calls are chosen by the language model: the Agent
\* asana_form_agent, which is handed the stages as tools.
Harness == "asana_form_agent"

\* The stage called next. Under the harness a tool's result goes back to the
\* language model ("llm"), which chooses the next tool.
NextStage(d, at, pdf_path_, form_info_, search_result_) ==
    IF d = "intelligent_qa_agent"
    THEN process_single_task(at, pdf_path_, form_info_, search_result_)
    ELSE IF d = "run_qa_agent"
    THEN process_qa_tasks(at, pdf_path_, form_info_, search_result_)
    ELSE "llm"

\* Under the harness the reasons are texts the language model writes.
IssueReason(d, pdf_path_) ==
    IF d = "intelligent_qa_agent" THEN process_single_task_issue_reason(pdf_path_)
    ELSE IF d = "run_qa_agent" THEN process_qa_tasks_issue_reason(pdf_path_)
    ELSE "No PDF found"

FollowupReason(d, search_result_) ==
    IF d = "intelligent_qa_agent" THEN process_single_task_followup_reason(search_result_)
    ELSE IF d = "run_qa_agent" THEN process_qa_tasks_followup_reason(search_result_)
    ELSE "Form 470 not found"

(***************************************************************************)
(* State                                                                   *)
(***************************************************************************)
VARIABLES
    driver,         \* which driver program runs
    layout,         \* the project's section list, an index of Layouts
    world,          \* the project's tasks, an index of Worlds
    env,            \* the configuration values set in the process environment
    asana,          \* the Task Store: section, completed, comments per task; subtasks
    files,          \* the temporary download area: {[path, content]}
    pc,             \* the call the driver makes next
    qa_tasks,       \* the backlog fetched by get_qa_tasks
    idx,            \* the position in qa_tasks of the item being processed
    pdf_path,       \* locals of the run on the current item
    form_info,
    search_result,
    calls,          \* the stage calls of the run on the current item, in order
    fetches,        \* the GETs to the document host in this run
    queries,        \* the GETs to the registry in this run
    m_pc,           \* the matcher called on its own: "input", "returned"; "off"
    m_form,         \*   its argument
    m_resp,         \*   the registry's answer to its request
    m_result,       \*   the dict it returned
    m_queries,      \*   the registry GETs it issued
    tick_log,       \* the stage calls of the current tick, in order: [task, op]
    e_pc,           \* the extractor called on its own: "input", "returned"; "off"
    e_text,         \*   the text the PDF decoder gave
    e_result,       \*   the dict it returned
    w_pc,           \* run_watcher_mode: "while", "tick", "if_sleep", "sleep",
                    \*   "stopped"; "off" outside watcher mode
    shutdown_flag,  \* the global shutdown_flag of each module
    sigint_handler, \* the module whose signal_handler is installed for SIGINT
    run_count,      \* the local run_count of run_watcher_mode
    clock           \* the seconds spent in time.sleep

vars == <<driver, layout, world, env, asana, files, pc, qa_tasks, idx, pdf_path, form_info,
          search_result, calls, fetches, queries, m_pc, m_form, m_resp, m_result,
          m_queries, tick_log, e_pc, e_text, e_result, w_pc, shutdown_flag,
          sigint_handler, run_count, clock>>

\* The configuration values the programs read with os.getenv.
EnvNames == {"OPENAI_API_KEY", "ASANA_API_KEY", "ASANA_PROJECT_ID"}

\* The Task Store can be reached: asana.Client.access_token(None) and
\* find_by_project(None) give a client whose requests raise.
AsanaConfigured(e) == {"ASANA_API_KEY", "ASANA_PROJECT_ID"} \subseteq e

config == <<driver, layout, world, env>>
matcher == <<m_pc, m_form, m_resp, m_result, m_queries>>
locals == <<pdf_path, form_info, search_result>>
extractor == <<e_pc, e_text, e_result>>
watcher == <<w_pc, shutdown_flag, sigint_handler, run_count, clock>>

\* The modules with a shutdown_flag and a signal_handler of their own.
Modules == {"run_qa_agent", "intelligent_qa_agent", "asana_form_agent"}

\* The handler installed once the driver's module is loaded: each module runs
\* signal.signal(signal.SIGINT, signal_handler) when it is imported, the last
\* one wins. intelligent_qa_agent imports asana_form_agent at its top, after
\* installing its own handler; run_qa_agent imports it inside process_qa_tasks.
handler_at_start(d) ==
    IF d = "intelligent_qa_agent" THEN "asana_form_agent" ELSE d

sections == Layouts[layout]
tasks == Worlds[world]
task_id == qa_tasks[idx]

Call(op, arg, ret) == [op |-> op, task |-> task_id, arg |-> arg, ret |-> ret]

MoveRaises == [find : BOOLEAN, move : BOOLEAN, comment : BOOLEAN]
CompleteRaises == [update : BOOLEAN, comment : BOOLEAN]
SubtaskRaises == [find : BOOLEAN, create : BOOLEAN]

\* Every task of the project starts in the backlog section, open, uncommented.
Init ==
    /\ driver \in Drivers
    /\ env = EnvNames
    /\ layout \in 1..Len(Layouts)
    /\ world \in 1..Len(Worlds)
    /\ asana = [section |-> [t \in 1..Len(Worlds[world]) |->
                                SetMin({s \in 1..Len(Layouts[layout]) :
                                           IsQaSection(Layouts[layout], s)})],
                completed |-> [t \in 1..Len(Worlds[world]) |-> FALSE],
                comments |-> [t \in 1..Len(Worlds[world]) |-> <<>>],
                subtasks |-> <<>>]
    /\ files = {}
    /\ pc = "get_qa_tasks"
    /\ qa_tasks = <<>>
    /\ idx = 0
    /\ pdf_path = None
    /\ form_info = EmptyDict
    /\ search_result = EmptyDict
    /\ calls = <<>>
    /\ fetches = <<>>
    /\ queries = <<>>
    /\ m_pc = "off"
    /\ m_form = EmptyDict
    /\ m_resp = EmptyDict
    /\ m_result = EmptyDict
    /\ m_queries = <<>>
    /\ tick_log = <<>>
    /\ e_pc = "off"
    /\ e_text = <<>>
    /\ e_result = EmptyDict
    /\ w_pc = "off"
    /\ shutdown_flag = [mod \in Modules |-> FALSE]
    /\ sigint_handler = handler_at_start(driver)
    /\ run_count = 0
    /\ clock = 0

(***************************************************************************)
(* Actions: one per stage call of the drivers                              *)
(***************************************************************************)
\* qa_tasks = get_qa_tasks(); if not qa_tasks: return; else the loop starts.
\* By then asana_form_agent has been imported (run_qa_agent.py line 40,
\* intelligent_qa_agent.py line 38), which installed its signal_handler.
GetQaTasks ==
    /\ pc = "get_qa_tasks"
    /\ \E raises \in (IF AsanaConfigured(env) THEN BOOLEAN ELSE {TRUE}) :
          /\ qa_tasks' = get_qa_tasks(asana, sections, raises)
          /\ idx' = IF qa_tasks' = <<>> THEN 0 ELSE 1
          /\ pc' = IF driver = Harness THEN "llm"
                   ELSE IF qa_tasks' = <<>> THEN "done"
                   ELSE "move_task_to_processing"
    /\ tick_log' = Append(tick_log, [task |-> 0, op |-> "get_qa_tasks"])
    /\ sigint_handler' = "asana_form_agent"
    /\ UNCHANGED <<config, asana, files, locals, calls, fetches, queries, matcher,
                   extractor, w_pc, shutdown_flag, run_count, clock>>

\* MoveToProcessing with its result tested: the item is left when it is False.
MoveToProcessing_checked ==
    /\ pc = "move_task_to_processing"
    /\ \E raises \in MoveRaises :
          LET r == move_task_to_processing(asana, sections, task_id, raises)
          IN  /\ asana' = r.store
              /\ calls' = Append(calls, Call("move_task_to_processing", "", r.ret))
              /\ pc' = IF r.ret THEN "download_pdf_from_task" ELSE "return"
    /\ tick_log' = Append(tick_log, [task |-> task_id, op |-> "move_task_to_processing"])
    /\ UNCHANGED <<config, files, qa_tasks, idx, locals, fetches, queries, matcher,
                   extractor, watcher>>

MoveToProcessing ==
    /\ pc = "move_task_to_processing"
    /\ \E raises \in MoveRaises :
          LET r == move_task_to_processing(asana, sections, task_id, raises)
          IN  /\ asana' = r.store
              /\ calls' = Append(calls, Call("move_task_to_processing", "", r.ret))
    /\ pc' = NextStage(driver, pc, pdf_path, form_info, search_result)
    /\ tick_log' = Append(tick_log, [task |-> task_id, op |-> "move_task_to_processing"])
    /\ UNCHANGED <<config, files, qa_tasks, idx, locals, fetches, queries, matcher,
                   extractor, watcher>>

Download ==
    /\ pc = "download_pdf_from_task"
    /\ \E find_raises \in BOOLEAN :
       \E outcomes \in [1..MaxFetches(tasks[task_id]) -> FetchOutcomes] :
          LET r == download_pdf_from_task(tasks[task_id], gid(task_id), files,
                                          find_raises, outcomes)
          IN  /\ pdf_path' = r.ret
              /\ files' = r.files
              /\ fetches' = fetches \o r.fetches
              /\ calls' = Append(calls, Call("download_pdf_from_task", "", r.ret))
              /\ pc' = NextStage(driver, pc, r.ret, form_info, search_result)
    /\ tick_log' = Append(tick_log, [task |-> task_id, op |-> "download_pdf_from_task"])
    /\ UNCHANGED <<config, asana, qa_tasks, idx, form_info, search_result, queries,
                   matcher,
                   extractor, watcher>>

\* extract_form_info(pdf_path) opens the file the locator stored; opening a
\* path that holds no file raises inside its try.
Extract ==
    /\ pc = "extract_form_info"
    /\ LET file == CHOOSE f \in files : f.path = pdf_path
           r == extract_form_info(IF \E f \in files : f.path = pdf_path
                                  THEN Docs[file.content] ELSE DecodeRaises)
       IN  /\ form_info' = r
           /\ calls' = Append(calls, Call("extract_form_info", pdf_path, r))
           /\ pc' = NextStage(driver, pc, pdf_path, r, search_result)
    /\ tick_log' = Append(tick_log, [task |-> task_id, op |-> "extract_form_info"])
    /\ UNCHANGED <<config, asana, files, qa_tasks, idx, pdf_path, search_result,
                   fetches, queries, matcher,
                   extractor, watcher>>

Search ==
    /\ pc = "search_form470"
    /\ \E resp \in RegistryResponses :
          LET r == search_form470(form_info, resp)
          IN  /\ search_result' = r
              /\ queries' = queries \o registry_requests(form_info)
              /\ calls' = Append(calls, Call("search_form470", form_info, r))
              /\ pc' = NextStage(driver, pc, pdf_path, form_info, r)
    /\ tick_log' = Append(tick_log, [task |-> task_id, op |-> "search_form470"])
    /\ UNCHANGED <<config, asana, files, qa_tasks, idx, pdf_path, form_info, fetches,
                   matcher,
                   extractor, watcher>>

MarkComplete ==
    /\ pc = "mark_task_complete"
    /\ \E raises \in CompleteRaises :
          LET form470_url == IF "form470_url" \in DOMAIN search_result
                             THEN search_result.form470_url ELSE "None"
              r == mark_task_complete(asana, task_id, form470_url, raises)
          IN  /\ asana' = r.store
              /\ calls' = Append(calls, Call("mark_task_complete", form470_url, r.ret))
    /\ pc' = NextStage(driver, pc, pdf_path, form_info, search_result)
    /\ tick_log' = Append(tick_log, [task |-> task_id, op |-> "mark_task_complete"])
    /\ UNCHANGED <<config, files, qa_tasks, idx, locals, fetches, queries, matcher,
                   extractor, watcher>>

MoveToManualFollowup ==
    /\ pc = "move_task_to_manual_followup"
    /\ \E raises \in MoveRaises :
          LET reason == FollowupReason(driver, search_result)
              r == move_task_to_manual_followup(asana, sections, task_id, reason, raises)
          IN  /\ asana' = r.store
              /\ calls' = Append(calls, Call("move_task_to_manual_followup", reason, r.ret))
    /\ pc' = NextStage(driver, pc, pdf_path, form_info, search_result)
    /\ tick_log' = Append(tick_log, [task |-> task_id, op |-> "move_task_to_manual_followup"])
    /\ UNCHANGED <<config, files, qa_tasks, idx, locals, fetches, queries, matcher,
                   extractor, watcher>>

CreateSubtask ==
    /\ pc = "create_manual_review_subtask"
    /\ \E raises \in SubtaskRaises, workspace \in BOOLEAN :
          LET r == create_manual_review_subtask(asana, task_id, form_info, raises,
                                                workspace)
          IN  /\ asana' = r.store
              /\ calls' = Append(calls,
                                 Call("create_manual_review_subtask", form_info, r.ret))
    /\ pc' = NextStage(driver, pc, pdf_path, form_info, search_result)
    /\ tick_log' = Append(tick_log, [task |-> task_id, op |-> "create_manual_review_subtask"])
    /\ UNCHANGED <<config, files, qa_tasks, idx, locals, fetches, queries, matcher,
                   extractor, watcher>>

MoveToIssues ==
    /\ pc = "move_task_to_issues"
    /\ \E raises \in MoveRaises :
          LET issue_reason == IssueReason(driver, pdf_path)
              r == move_task_to_issues(asana, sections, task_id, issue_reason, raises)
          IN  /\ asana' = r.store
              /\ calls' = Append(calls, Call("move_task_to_issues", issue_reason, r.ret))
    /\ pc' = NextStage(driver, pc, pdf_path, form_info, search_result)
    /\ tick_log' = Append(tick_log, [task |-> task_id, op |-> "move_task_to_issues"])
    /\ UNCHANGED <<config, files, qa_tasks, idx, locals, fetches, queries, matcher,
                   extractor, watcher>>

\* NextItem fetching the backlog again after each item.
NextItem_refetch ==
    /\ pc = "return"
    /\ pc' = "get_qa_tasks"
    /\ pdf_path' = None
    /\ form_info' = EmptyDict
    /\ search_result' = EmptyDict
    /\ calls' = <<>>
    /\ fetches' = <<>>
    /\ queries' = <<>>
    /\ UNCHANGED <<config, asana, files, qa_tasks, idx, matcher, tick_log,
                   extractor, watcher>>

\* The run on the current item has returned: the loop takes the next item of
\* qa_tasks with fresh locals, or the driver returns after the last one.
NextItem ==
    /\ pc = "return"
    /\ IF idx < Len(qa_tasks)
       THEN /\ idx' = idx + 1
            /\ pc' = "move_task_to_processing"
            /\ pdf_path' = None
            /\ form_info' = EmptyDict
            /\ search_result' = EmptyDict
            /\ calls' = <<>>
            /\ fetches' = <<>>
            /\ queries' = <<>>
       ELSE /\ pc' = "done"
            /\ UNCHANGED <<idx, locals, calls, fetches, queries>>
    /\ UNCHANGED <<config, asana, files, qa_tasks, matcher, tick_log,
                   extractor, watcher>>

Next ==
    \/ GetQaTasks
    \/ MoveToProcessing
    \/ Download
    \/ Extract
    \/ Search
    \/ MarkComplete
    \/ MoveToManualFollowup
    \/ CreateSubtask
    \/ MoveToIssues
    \/ NextItem

Spec == Init /\ [][Next]_vars

(***************************************************************************)
(* search_form470 called on its own, on any form record                    *)
(***************************************************************************)
\* A form record: a dict with the keys whose value given here is not None.
FormRecord(form_type, application_number, establishing_form470_number) ==
    LET all == [form_type |-> form_type,
                application_number |-> application_number,
                establishing_form470_number |-> establishing_form470_number]
    IN  [k \in {x \in DOMAIN all : all[x] # None} |-> all[k]]

\* The form records search_form470 is called with: each key absent, empty or set.
FormRecords ==
    {FormRecord(ft, an, en) :
        ft \in {None, L_471, L_470, L_unknown},
        an \in {None, <<>>, <<"2", "5", "1", "0", "4", "3", "3", "2", "7">>},
        en \in {None, <<>>, <<"1", "2", "3", "4", "5", "6", "7", "8", "9", "0", "1", "2", "3", "4", "5">>}}

MatchInit ==
    /\ driver = "intelligent_qa_agent"
    /\ env = EnvNames
    /\ layout = 1
    /\ world = 1
    /\ asana = [section |-> <<1>>, completed |-> <<FALSE>>, comments |-> << <<>> >>,
                subtasks |-> <<>>]
    /\ files = {}
    /\ pc = "off"
    /\ qa_tasks = <<>>
    /\ idx = 0
    /\ pdf_path = None
    /\ form_info = EmptyDict
    /\ search_result = EmptyDict
    /\ calls = <<>>
    /\ fetches = <<>>
    /\ queries = <<>>
    /\ m_pc = "input"
    /\ m_form \in FormRecords
    /\ m_resp = EmptyDict
    /\ m_result = EmptyDict
    /\ m_queries = <<>>
    /\ tick_log = <<>>
    /\ e_pc = "off"
    /\ e_text = <<>>
    /\ e_result = EmptyDict
    /\ w_pc = "off"
    /\ shutdown_flag = [mod \in Modules |-> FALSE]
    /\ sigint_handler = handler_at_start(driver)
    /\ run_count = 0
    /\ clock = 0

\* search_form470(m_form): the registry answers the request, if one is issued.
MatchCall ==
    /\ m_pc = "input"
    /\ \E resp \in RegistryResponses :
          /\ m_resp' = IF registry_requests(m_form) = <<>> THEN EmptyDict ELSE resp
          /\ m_result' = search_form470(m_form, resp)
    /\ m_queries' = registry_requests(m_form)
    /\ m_pc' = "returned"
    /\ UNCHANGED <<config, asana, files, pc, qa_tasks, idx, locals, calls, fetches,
                   queries, m_form, tick_log, extractor, watcher>>

MatchNext == MatchCall

SpecMatch == MatchInit /\ [][MatchNext]_vars

(***************************************************************************)
(* extract_form_info called on its own, on any decoded text                *)
(***************************************************************************)
\* Lines a document may hold: about its form type,
TypeLines ==
    {<<"F", "C", "C", " ", "F", "o", "r", "m", " ", "4", "7", "1", "\n">>, <<"f", "c", "c", " ", "F", "O", "R", "M", " ", "4", "7", "0", "\n">>, <<"F", "o", "r", "m", " ", "4", "7", "0", " ", "a", "n", "d", " ", "F", "o", "r", "m", " ", "4", "7", "1", "\n">>, <<"I", "n", "v", "o", "i", "c", "e", "\n">>,
     <<"i", "d", " ", "1", "4", "7", "0", "1", "\n">>}
\* its application number,
AppLines ==
    {<<>>, <<"A", "p", "p", "l", "i", "c", "a", "t", "i", "o", "n", " ", "N", "u", "m", "b", "e", "r", ":", " ", "2", "5", "1", "0", "4", "3", "3", "2", "7", "\n">>, <<"a", "p", "p", "l", "i", "c", "a", "t", "i", "o", "n", " ", "n", "u", "m", "b", "e", "r", " ", "7", "7", "\n">>,
     <<"A", "p", "p", "l", "i", "c", "a", "t", "i", "o", "n", " ", "N", "u", "m", "b", "e", "r", ":", " ", "N", "/", "A", "\n">>, <<"R", "e", "f", " ", "9", "8", "7", "6", "5", "4", "3", "2", "1", "\n">>, <<"R", "e", "f", " ", "1", "2", "3", "4", "5", "6", "7", "8", "9", "0", "1", "2", "3", "4", "5", "6", "\n">>}
\* its establishing Form 470 number,
EstLines ==
    {<<>>, <<"E", "s", "t", "a", "b", "l", "i", "s", "h", "i", "n", "g", " ", "F", "C", "C", " ", "F", "o", "r", "m", " ", "4", "7", "0", ":", " ", "1", "2", "3", "4", "5", "6", "7", "8", "9", "0", "1", "2", "3", "4", "5", "\n">>,
     <<"E", "s", "t", "a", "b", "l", "i", "s", "h", "i", "n", "g", " ", "t", "h", "e", " ", "F", "o", "r", "m", " ", "4", "7", "0", " ", ":", " ", "1", "8", "0", "0", "1", "2", "3", "4", "5", "\n">>, <<"N", "u", "m", "b", "e", "r", " ", "9", "9", "9", "8", "8", "8", "7", "7", "7", "6", "6", "6", "5", "5", "5", "\n">>,
     <<"N", "u", "m", "b", "e", "r", " ", "9", "9", "9", "8", "8", "8", "7", "7", "7", "6", "6", "6", "5", "5", "5", "\n", "E", "s", "t", "a", "b", "l", "i", "s", "h", "i", "n", "g", " ", "F", "C", "C", " ", "F", "o", "r", "m", " ", "4", "7", "0", ":", " ", "1", "2", "3", "4", "5", "6", "7", "8", "9", "0", "1", "2", "3", "4", "5", "\n">>}
\* and its billed entity, on the line of the label or on the line after it.
EntityLines == {<<>>, <<"B", "i", "l", "l", "e", "d", " ", "E", "n", "t", "i", "t", "y", " ", "N", "a", "m", "e", ":", " ", "A", "c", "m", "e", " ", "S", "c", "h", "o", "o", "l", "\n">>,
     <<"B", "i", "l", "l", "e", "d", " ", "E", "n", "t", "i", "t", "y", " ", "N", "a", "m", "e", ":", "\n", "C", "o", "n", "t", "a", "c", "t", ":", " ", "J", "o", "\n">>}

\* What the PDF decoder can give extract_form_info.
Decoded ==
    {ty \o ap \o es \o en :
        ty \in TypeLines, ap \in AppLines, es \in EstLines, en \in EntityLines}
    \cup {DecodeRaises}

ExtractInit ==
    /\ driver = "intelligent_qa_agent"
    /\ env = EnvNames
    /\ layout = 1
    /\ world = 1
    /\ asana = [section |-> <<1>>, completed |-> <<FALSE>>, comments |-> << <<>> >>,
                subtasks |-> <<>>]
    /\ files = {}
    /\ pc = "off"
    /\ qa_tasks = <<>>
    /\ idx = 0
    /\ pdf_path = None
    /\ form_info = EmptyDict
    /\ search_result = EmptyDict
    /\ calls = <<>>
    /\ fetches = <<>>
    /\ queries = <<>>
    /\ m_pc = "off"
    /\ m_form = EmptyDict
    /\ m_resp = EmptyDict
    /\ m_result = EmptyDict
    /\ m_queries = <<>>
    /\ tick_log = <<>>
    /\ e_pc = "input"
    /\ e_text \in Decoded
    /\ e_result = EmptyDict
    /\ w_pc = "off"
    /\ shutdown_flag = [mod \in Modules |-> FALSE]
    /\ sigint_handler = handler_at_start(driver)
    /\ run_count = 0
    /\ clock = 0

\* form_info = extract_form_info(pdf_path), the decoder having given e_text.
ExtractCall ==
    /\ e_pc = "input"
    /\ e_result' = extract_form_info(e_text)
    /\ e_pc' = "returned"
    /\ UNCHANGED <<config, asana, files, pc, qa_tasks, idx, locals, calls, fetches,
                   queries, matcher, tick_log, e_text, watcher>>

ExtractNext == ExtractCall

SpecExtract == ExtractInit /\ [][ExtractNext]_vars

(***************************************************************************)
(* run_watcher_mode: the polling loop around the driver                    *)
(***************************************************************************)
\* The number of ticks the model follows the loop for.
MaxTicks == 2

\* time.sleep(60)
SleepSeconds == 60

\* The layouts and backlogs the loop is run against: a project without the
\* Processing and Issues sections, where items stay in the backlog from tick
\* to tick; one item with a document, or two items without.
\* The environments the watcher is started in: everything set, or one value
\* missing.
WatchEnvs == {EnvNames} \cup {EnvNames \ {name} : name \in EnvNames}

WatchLayouts == {2}
WatchWorlds == {1, 2}

WatchInit ==
    /\ driver \in Drivers
    /\ env \in WatchEnvs
    /\ layout \in WatchLayouts
    /\ world \in WatchWorlds
    /\ asana = [section |-> [t \in 1..Len(Worlds[world]) |->
                                SetMin({s \in 1..Len(Layouts[layout]) :
                                           IsQaSection(Layouts[layout], s)})],
                completed |-> [t \in 1..Len(Worlds[world]) |-> FALSE],
                comments |-> [t \in 1..Len(Worlds[world]) |-> <<>>],
                subtasks |-> <<>>]
    /\ files = {}
    /\ pc = "off"
    /\ qa_tasks = <<>>
    /\ idx = 0
    /\ pdf_path = None
    /\ form_info = EmptyDict
    /\ search_result = EmptyDict
    /\ calls = <<>>
    /\ fetches = <<>>
    /\ queries = <<>>
    /\ m_pc = "off"
    /\ m_form = EmptyDict
    /\ m_resp = EmptyDict
    /\ m_result = EmptyDict
    /\ m_queries = <<>>
    /\ tick_log = <<>>
    /\ e_pc = "off"
    /\ e_text = <<>>
    /\ e_result = EmptyDict
    /\ w_pc = "startup"
    /\ shutdown_flag = [mod \in Modules |-> FALSE]
    /\ sigint_handler = handler_at_start(driver)
    /\ run_count = 0
    /\ clock = 0

\* The module-level check made when the program is started:
\* `if not os.getenv('OPENAI_API_KEY'): ... exit(1)`. No other value is tested.
StartupCheck ==
    /\ w_pc = "startup"
    /\ w_pc' = IF "OPENAI_API_KEY" \in env THEN "while" ELSE "exited"
    /\ UNCHANGED <<config, asana, files, pc, qa_tasks, idx, locals, calls, fetches,
                   queries, matcher, tick_log, extractor, shutdown_flag, sigint_handler,
                   run_count, clock>>

\* WhileTest as `while True:`: the flag is not read at the head of the loop.
WhileTest_forever ==
    /\ w_pc = "while"
    /\ run_count < MaxTicks
    /\ run_count' = run_count + 1
    /\ w_pc' = "tick"
    /\ pc' = "get_qa_tasks"
    /\ tick_log' = <<>>
    /\ qa_tasks' = <<>>
    /\ idx' = 0
    /\ UNCHANGED <<config, asana, files, locals, calls, fetches, queries, matcher,
                   extractor, shutdown_flag, sigint_handler, clock>>

\* while not shutdown_flag: run_count += 1; ...; try: the driver is entered,
\* with fresh locals.
WhileTest ==
    /\ w_pc = "while"
    /\ IF shutdown_flag[driver]
       THEN /\ w_pc' = "stopped"
            /\ UNCHANGED <<pc, tick_log, run_count>>
       ELSE /\ run_count < MaxTicks
            /\ run_count' = run_count + 1
            /\ w_pc' = "tick"
            /\ pc' = "get_qa_tasks"
            /\ tick_log' = <<>>
    /\ qa_tasks' = <<>>
    /\ idx' = 0
    /\ UNCHANGED <<config, asana, files, locals, calls, fetches, queries, matcher,
                   extractor, shutdown_flag, sigint_handler, clock>>

\* The driver returns, its locals are gone: "Run #n completed successfully".
TickReturn ==
    /\ w_pc = "tick"
    /\ pc = "done"
    /\ w_pc' = "if_sleep"
    /\ pc' = "off"
    /\ qa_tasks' = <<>>
    /\ idx' = 0
    /\ pdf_path' = None
    /\ form_info' = EmptyDict
    /\ search_result' = EmptyDict
    /\ calls' = <<>>
    /\ fetches' = <<>>
    /\ queries' = <<>>
    /\ tick_log' = <<>>
    /\ UNCHANGED <<config, asana, files, matcher, extractor, shutdown_flag,
                   sigint_handler, run_count, clock>>

\* TickRaise with no try around the tick: the exception ends run_watcher_mode.
TickRaise_uncaught ==
    /\ w_pc = "tick"
    /\ pc \notin {"done", "off"}
    /\ w_pc' = "stopped"
    /\ pc' = "except"
    /\ tick_log' = <<>>
    /\ pdf_path' = None
    /\ form_info' = EmptyDict
    /\ search_result' = EmptyDict
    /\ calls' = <<>>
    /\ fetches' = <<>>
    /\ queries' = <<>>
    /\ UNCHANGED <<config, asana, files, qa_tasks, idx, matcher, extractor, shutdown_flag,
                   sigint_handler, run_count, clock>>

\* An exception that no stage handles is raised between two stage calls of the
\* tick (by a statement of the driver itself): process_qa_tasks catches it at
\* run_qa_agent.py line 114, run_watcher_mode at intelligent_qa_agent.py line
\* 217. Either way the rest of the tick is dropped; qa_tasks and idx keep
\* where the tick was when it was dropped.
TickRaise ==
    /\ w_pc = "tick"
    /\ pc \notin {"done", "off"}
    /\ w_pc' = "if_sleep"
    /\ pc' = "except"
    /\ tick_log' = <<>>
    /\ pdf_path' = None
    /\ form_info' = EmptyDict
    /\ search_result' = EmptyDict
    /\ calls' = <<>>
    /\ fetches' = <<>>
    /\ queries' = <<>>
    /\ UNCHANGED <<config, asana, files, qa_tasks, idx, matcher, extractor, shutdown_flag,
                   sigint_handler, run_count, clock>>

\* IfSleep without the test of the flag: time.sleep(60) after every tick.
IfSleep_no_test ==
    /\ w_pc = "if_sleep"
    /\ w_pc' = "sleep"
    /\ UNCHANGED <<config, asana, files, pc, qa_tasks, idx, locals, calls, fetches,
                   queries, matcher, tick_log, extractor, shutdown_flag, sigint_handler,
                   run_count, clock>>

\* if not shutdown_flag: time.sleep(60) is entered.
IfSleep ==
    /\ w_pc = "if_sleep"
    /\ w_pc' = IF shutdown_flag[driver] THEN "while" ELSE "sleep"
    /\ UNCHANGED <<config, asana, files, pc, qa_tasks, idx, locals, calls, fetches,
                   queries, matcher, tick_log, extractor, shutdown_flag, sigint_handler,
                   run_count, clock>>

\* time.sleep(60) returns (a signal handled meanwhile does not cut it short).
Wake ==
    /\ w_pc = "sleep"
    /\ clock' = clock + SleepSeconds
    /\ w_pc' = "while"
    /\ UNCHANGED <<config, asana, files, pc, qa_tasks, idx, locals, calls, fetches,
                   queries, matcher, tick_log, extractor, shutdown_flag, sigint_handler,
                   run_count>>

\* SIGINT is delivered: the installed signal_handler sets the shutdown_flag of
\* its own module.
Sigint ==
    /\ w_pc \notin {"off", "startup", "exited", "stopped"}
    /\ ~shutdown_flag[sigint_handler]
    /\ shutdown_flag' = [shutdown_flag EXCEPT ![sigint_handler] = TRUE]
    /\ UNCHANGED <<config, asana, files, pc, qa_tasks, idx, locals, calls, fetches,
                   queries, matcher, tick_log, extractor, w_pc, sigint_handler,
                   run_count, clock>>

WatchNext ==
    \/ StartupCheck
    \/ WhileTest
    \/ GetQaTasks
    \/ MoveToProcessing
    \/ Download
    \/ Extract
    \/ Search
    \/ MarkComplete
    \/ MoveToManualFollowup
    \/ CreateSubtask
    \/ MoveToIssues
    \/ NextItem
    \/ TickReturn
    \/ TickRaise
    \/ IfSleep
    \/ Wake
    \/ Sigint

SpecWatch == WatchInit /\ [][WatchNext]_vars

(***************************************************************************)
(* The watcher when every statement and every stage call terminates: the   *)
(* interpreter goes on to the next statement of the loop, and a tick does  *)
(* not stay inside a stage call for ever. Signals and exceptions are not   *)
(* owed to anybody.                                                        *)
(***************************************************************************)
\* The statements of run_watcher_mode itself.
LoopStep ==
    \/ StartupCheck
    \/ WhileTest
    \/ TickReturn
    \/ IfSleep
    \/ Wake

\* The driver is inside a tick and has a stage call or a loop step to make.
InStageCall == w_pc = "tick" /\ pc # "done"

\* Every stage call returns or raises: the driver does not stay in the tick.
StageCallsTerminate == []<>(~InStageCall)

SpecWatchFair ==
    WatchInit /\ [][WatchNext]_vars /\ WF_vars(LoopStep) /\ StageCallsTerminate

(***************************************************************************)
(* The language-model harness: asana_form_agent                            *)
(***************************************************************************)
\* The most tool calls of one response of the agent that are followed.
MaxToolCalls == 3

\* The tools of the Agent that change or read what the pipeline works on
\* (get_task_details only reads a task and is left out).
AgentTools ==
    {"get_qa_tasks", "move_task_to_processing", "move_task_to_manual_followup",
     "move_task_to_issues", "download_pdf_from_task", "extract_form_info",
     "search_form470", "mark_task_complete", "create_manual_review_subtask"}

\* The projects the agent is run against.
AgentLayouts == {1}
AgentWorlds == {1}

\* asana_form_agent.print_response("Process all QA tasks ...") is entered.
AgentInit ==
    /\ driver = Harness
    /\ env = EnvNames
    /\ layout \in AgentLayouts
    /\ world \in AgentWorlds
    /\ asana = [section |-> [t \in 1..Len(Worlds[world]) |->
                                SetMin({s \in 1..Len(Layouts[layout]) :
                                           IsQaSection(Layouts[layout], s)})],
                completed |-> [t \in 1..Len(Worlds[world]) |-> FALSE],
                comments |-> [t \in 1..Len(Worlds[world]) |-> <<>>],
                subtasks |-> <<>>]
    /\ files = {}
    /\ pc = "llm"
    /\ qa_tasks = <<>>
    /\ idx = 0
    /\ pdf_path = None
    /\ form_info = EmptyDict
    /\ search_result = EmptyDict
    /\ calls = <<>>
    /\ fetches = <<>>
    /\ queries = <<>>
    /\ m_pc = "off"
    /\ m_form = EmptyDict
    /\ m_resp = EmptyDict
    /\ m_result = EmptyDict
    /\ m_queries = <<>>
    /\ tick_log = <<>>
    /\ e_pc = "off"
    /\ e_text = <<>>
    /\ e_result = EmptyDict
    /\ w_pc = "off"
    /\ shutdown_flag = [mod \in Modules |-> FALSE]
    /\ sigint_handler = Harness
    /\ run_count = 0
    /\ clock = 0

\* The language model answers: it asks for one of its tools, for an item of
\* the backlog it was given and with the values earlier tools returned, or it
\* ends the response. Nothing in the program restricts its choice.
AgentDecide ==
    /\ pc = "llm"
    /\ \/ /\ Len(tick_log) < MaxToolCalls
          /\ pc' \in {tool \in AgentTools : tool = "get_qa_tasks" \/ idx >= 1}
       \/ pc' = "done"
    /\ UNCHANGED <<config, asana, files, qa_tasks, idx, locals, calls, fetches, queries,
                   matcher, tick_log, extractor, watcher>>

AgentNext ==
    \/ AgentDecide
    \/ GetQaTasks
    \/ MoveToProcessing
    \/ Download
    \/ Extract
    \/ Search
    \/ MarkComplete
    \/ MoveToManualFollowup
    \/ CreateSubtask
    \/ MoveToIssues

SpecAgent == AgentInit /\ [][AgentNext]_vars

(***************************************************************************)
(* download_pdf_from_task called on its own, again and again               *)
(***************************************************************************)
\* The most calls of the locator that are followed.
MaxLocates == 2

\* The tasks the locator is called for, each with its gid (a digit string):
\* attachment names and gids that could run into each other in
\* f"{task_id}_{name}", and an item with an attachment and a notes URL of the
\* same file name.
LocateTasks ==
    << [gid |-> <<"1">>, task |-> Item(<<>>, <<Att(<<"2", "_", "a", ".", "p", "d", "f">>, <<"u", "1">>)>>)],
       [gid |-> <<"1", "2">>, task |-> Item(<<>>, <<Att(<<"a", ".", "p", "d", "f">>, <<"u", "2">>)>>)],
       [gid |-> <<"2">>, task |-> Item(<<"s", "e", "e", " ", "h", "t", "t", "p", ":", "/", "/", "h", "/", "a", ".", "p", "d", "f">>, <<Att(<<"a", ".", "p", "d", "f">>, <<"u", "3">>)>>)] >>

\* The temporary area is empty and no call was made.
LocateInit ==
    /\ driver = "intelligent_qa_agent"
    /\ env = EnvNames
    /\ layout = 1
    /\ world = 1
    /\ asana = [section |-> <<1>>, completed |-> <<FALSE>>, comments |-> << <<>> >>,
                subtasks |-> <<>>]
    /\ files = {}
    /\ pc = "locate"
    /\ qa_tasks = <<>>
    /\ idx = 0
    /\ pdf_path = None
    /\ form_info = EmptyDict
    /\ search_result = EmptyDict
    /\ calls = <<>>
    /\ fetches = <<>>
    /\ queries = <<>>
    /\ m_pc = "off"
    /\ m_form = EmptyDict
    /\ m_resp = EmptyDict
    /\ m_result = EmptyDict
    /\ m_queries = <<>>
    /\ tick_log = <<>>
    /\ e_pc = "off"
    /\ e_text = <<>>
    /\ e_result = EmptyDict
    /\ w_pc = "off"
    /\ shutdown_flag = [mod \in Modules |-> FALSE]
    /\ sigint_handler = handler_at_start(driver)
    /\ run_count = 0
    /\ clock = 0

\* pdf_path = download_pdf_from_task(task_id) for one of the tasks; the host
\* answers each GET as it likes.
LocateCall ==
    /\ pc = "locate"
    /\ Len(calls) < MaxLocates
    /\ \E t \in DOMAIN LocateTasks :
       \E outcomes \in [1..MaxFetches(LocateTasks[t].task) -> FetchOutcomes] :
          LET r == download_pdf_from_task(LocateTasks[t].task, LocateTasks[t].gid,
                                          files, FALSE, outcomes)
          IN  /\ pdf_path' = r.ret
              /\ files' = r.files
              /\ fetches' = r.fetches
              /\ calls' = Append(calls, [op |-> "download_pdf_from_task", task |-> t,
                                         arg |-> LocateTasks[t].gid, ret |-> r.ret])
    /\ UNCHANGED <<config, asana, pc, qa_tasks, idx, form_info, search_result, queries,
                   matcher, tick_log, extractor, watcher>>

LocateNext == LocateCall

SpecLocate == LocateInit /\ [][LocateNext]_vars

(***************************************************************************)
(* Properties                                                              *)
(***************************************************************************)
TerminalOps == {"mark_task_complete", "move_task_to_manual_followup", "move_task_to_issues"}

\* The positions in the current run's calls of the calls of op.
CallsOf(op) == {i \in DOMAIN calls : calls[i].op = op}
Called(op) == CallsOf(op) # {}
TerminalCalls == {i \in DOMAIN calls : calls[i].op \in TerminalOps}

\* What the current run has produced so far.
Located == Truthy(pdf_path)
Extracted == DOMAIN form_info # {}
Searched == DOMAIN search_result # {}
Found == Searched /\ search_result.found
InRun == idx >= 1

FollowupText == "Form 470 not found in USAC database"

\* C1: every run of the per-item pipeline that returns has requested exactly
\* one terminal outcome: one call among mark_task_complete,
\* move_task_to_manual_followup, move_task_to_issues, never none, never two, in
\* both drivers.
C1_ExactlyOneTerminalOutcome ==
    /\ Cardinality(TerminalCalls) <= 1
    /\ pc = "return" => Cardinality(TerminalCalls) = 1

C1_Witness ==
    /\ pc = "return"
    /\ driver = "run_qa_agent"
    /\ Called("move_task_to_manual_followup")
    /\ Called("create_manual_review_subtask")
    /\ Cardinality(TerminalCalls) = 1

\* An attachment whose name ends in ".pdf", whatever the case of the letters.
PdfNamed(att) ==
    LET n == att.name
    IN  Len(n) >= 4 /\ lower(SubSeq(n, Len(n) - 3, Len(n))) = L_pdf

\* notes[i..j] is an http(s) URL ending in ".pdf": it starts with http:// or
\* https://, ends with .pdf, holds no whitespace, and something stands between.
IsPdfUrl(notes, i, j) ==
    LET u == lower(SubSeq(notes, i, j))
        body == IF At(u, 1, <<"h", "t", "t", "p", "s", ":", "/", "/">>) THEN 9
                ELSE IF At(u, 1, <<"h", "t", "t", "p", ":", "/", "/">>) THEN 8 ELSE 0
    IN  /\ body # 0
        /\ Len(u) - 4 >= body
        /\ At(u, Len(u) - 3, L_pdf)
        /\ \A k \in 1..Len(u) : u[k] \notin Whitespace

\* The items with no ".pdf" attachment and no ".pdf" URL in the notes.
NoPdfSource ==
    [w \in DOMAIN Worlds |->
        [t \in DOMAIN Worlds[w] |->
            LET item == Worlds[w][t]
            IN  /\ \A a \in DOMAIN item.attachments : ~PdfNamed(item.attachments[a])
                /\ \A i \in DOMAIN item.notes : \A j \in DOMAIN item.notes :
                       ~IsPdfUrl(item.notes, i, j)]]

\* C2: for an item with no attachment named *.pdf and no http(s) URL ending in
\* .pdf in its notes, download_pdf_from_task fetches nothing and returns None,
\* and the run ends with move_task_to_issues as its terminal call.
C2_NoPdfSourceEndsInIssues ==
    (InRun /\ NoPdfSource[world][task_id]) =>
        /\ fetches = <<>>
        /\ pdf_path = None
        /\ ~Called("extract_form_info")
        /\ \A i \in TerminalCalls : calls[i].op = "move_task_to_issues"
        /\ pc = "return" => Called("move_task_to_issues")

C2_Witness ==
    /\ InRun
    /\ pc = "return"
    /\ NoPdfSource[world][task_id]
    /\ tasks[task_id].attachments # <<>>
    /\ Called("download_pdf_from_task")
    /\ Called("move_task_to_issues")

\* C3: once a GET of the item's document (attachment or notes URL) has failed
\* in a run, that run calls none of extract_form_info, search_form470,
\* move_task_to_manual_followup, create_manual_review_subtask,
\* mark_task_complete: the item ends in Issues.
C3_DownloadFailureEndsInIssues ==
    (\E i \in DOMAIN fetches : ~FetchOk(fetches[i].outcome)) =>
        /\ \A c \in DOMAIN calls :
              calls[c].op \notin {"extract_form_info", "search_form470",
                                  "move_task_to_manual_followup",
                                  "create_manual_review_subtask", "mark_task_complete"}
        /\ pc = "return" => Called("move_task_to_issues")

\* C4: in both drivers, when extraction returns the empty record or a record
\* whose form type is not 471, the registry is not queried, neither Completed
\* nor ManualFollowup is requested, and the item is moved to Issues with the
\* reason "Not a Form 471 or extraction failed".
C4_Not471EndsInIssues ==
    (Called("extract_form_info")
       /\ (~Extracted \/ Get(form_info, "form_type") # L_471)) =>
        /\ queries = <<>>
        /\ ~Called("search_form470")
        /\ ~Called("mark_task_complete")
        /\ ~Called("move_task_to_manual_followup")
        /\ pc = "return" =>
              \E i \in CallsOf("move_task_to_issues") :
                  calls[i].arg = "Not a Form 471 or extraction failed"

\* C5: a run requests Completed if and only if the document was located, the
\* extraction gave a record and the match returned found; the request carries
\* the form470_url of the match, the completion comment written holds that
\* URL, and the item is completed in the store only after such a match.
C5_CompletedIffFound ==
    InRun =>
        /\ pc = "return" =>
              (Called("mark_task_complete") <=> (Located /\ Extracted /\ Found))
        /\ \A i \in CallsOf("mark_task_complete") :
              /\ Located /\ Extracted /\ Found
              /\ calls[i].arg = search_result.form470_url
              /\ calls[i].ret =>
                    /\ asana.completed[task_id]
                    /\ asana.comments[task_id] # <<>>
                    /\ asana.comments[task_id][Len(asana.comments[task_id])]
                          = Comment("Task completed successfully!",
                                    search_result.form470_url)
        /\ asana.completed[task_id] => Called("mark_task_complete")

C5_Witness ==
    /\ InRun
    /\ pc = "return"
    /\ \E i \in CallsOf("mark_task_complete") :
          calls[i].ret /\ calls[i].arg = "http://x/z.pdf"
    /\ \E k \in DOMAIN asana.comments[task_id] :
          asana.comments[task_id][k].value = "http://x/z.pdf"

\* C6: create_manual_review_subtask is called in a run if and only if the run
\* requests ManualFollowup, which is if and only if the extraction gave a
\* Form 471 record and the match returned not found; it is called once, after
\* move_task_to_manual_followup, with the extracted form record.
C6_SubtaskIffManualFollowup ==
    pc = "return" =>
        /\ Called("create_manual_review_subtask") <=> Called("move_task_to_manual_followup")
        /\ Called("move_task_to_manual_followup") <=>
              (Extracted /\ Get(form_info, "form_type") = L_471 /\ Searched /\ ~Found)
        /\ Cardinality(CallsOf("create_manual_review_subtask")) <= 1
        /\ \A i \in CallsOf("create_manual_review_subtask") :
              /\ calls[i].arg = form_info
              /\ \E j \in CallsOf("move_task_to_manual_followup") : j < i

\* C7 as stated: the reason passed to move_task_to_manual_followup is the error
\* of the match result when it carries one, and "Form 470 not found in USAC
\* database" only when it carries none.
C7_ReasonIsMatchError ==
    \A i \in CallsOf("move_task_to_manual_followup") :
        calls[i].arg = IF "error" \in DOMAIN search_result THEN search_result.error
                       ELSE FollowupText

\* C7 amended: the reason passed to move_task_to_manual_followup is always
\* "Form 470 not found in USAC database", also when the match result carries an
\* error, and the follow-up comment written holds that text.
C7_ReasonIsFixedText ==
    \A i \in CallsOf("move_task_to_manual_followup") :
        /\ calls[i].arg = FollowupText
        /\ calls[i].ret =>
              asana.comments[task_id][Len(asana.comments[task_id])]
                  = Comment("Task moved to Manual Follow-up Required", FollowupText)

C7_Witness ==
    /\ Called("move_task_to_manual_followup")
    /\ "error" \in DOMAIN search_result
    /\ search_result.error = "API error: 500"
    /\ \E i \in CallsOf("move_task_to_manual_followup") : calls[i].ret

\* A 200 response whose body parses.
OkResponse(resp) == ~resp.raises /\ resp.status_code = 200 /\ ~resp.json_raises

\* The key the selection rule names for a form record.
SelectedKey(f) ==
    IF /\ "form_type" \in DOMAIN f
       /\ f.form_type = L_471
       /\ "establishing_form470_number" \in DOMAIN f
       /\ f.establishing_form470_number # <<>>
    THEN f.establishing_form470_number
    ELSE IF "application_number" \in DOMAIN f THEN f.application_number ELSE None

\* C8: search_form470 searches by the establishing Form 470 number when the
\* form type is 471 and that number is set, and by the application number in
\* every other case; the one registry request filters application_number by
\* exactly that key, and the dict returned from a response names it.
C8_SearchKeySelection ==
    m_pc = "returned" =>
        /\ Truthy(SelectedKey(m_form)) => Len(m_queries) = 1
        /\ \A i \in DOMAIN m_queries :
              /\ m_queries[i].where_field = "application_number"
              /\ m_queries[i].where_value = SelectedKey(m_form)
        /\ (m_queries # <<>> /\ ~m_resp.raises /\ ~m_resp.json_raises) =>
              m_result.search_number = SelectedKey(m_form)

C8_Witness ==
    /\ m_pc = "returned"
    /\ Get(m_form, "form_type") = L_471
    /\ Get(m_form, "application_number") = <<"2", "5", "1", "0", "4", "3", "3", "2", "7">>
    /\ Len(m_queries) = 1
    /\ m_queries[1].where_value = <<"1", "2", "3", "4", "5", "6", "7", "8", "9", "0", "1", "2", "3", "4", "5">>

\* C9: a 200 response with zero records gives found = FALSE and no error key;
\* a transport failure or any other status gives found = FALSE with the error
\* key set.
C9_ZeroRecordsHasNoError ==
    (m_pc = "returned" /\ m_queries # <<>>) =>
        /\ (OkResponse(m_resp) /\ m_resp.data = <<>>) =>
              (~m_result.found /\ "error" \notin DOMAIN m_result)
        /\ (m_resp.raises \/ m_resp.status_code # 200) =>
              (~m_result.found /\ "error" \in DOMAIN m_result)

C9_Witness ==
    /\ m_pc = "returned"
    /\ m_queries # <<>>
    /\ OkResponse(m_resp)
    /\ m_resp.data = <<>>
    /\ DOMAIN m_result = {"found", "search_number"}

\* C10: on a 200 response with at least one record the first record's form_pdf
\* alone decides: non-empty gives found = TRUE with form470_url equal to it,
\* empty or missing gives found = FALSE with error "No URL in record",
\* whatever the later records hold.
C10_FirstRecordDecides ==
    (m_pc = "returned" /\ m_queries # <<>> /\ OkResponse(m_resp) /\ m_resp.data # <<>>) =>
        LET first == m_resp.data[1]
            url == IF "form_pdf" \in DOMAIN first THEN first.form_pdf ELSE ""
        IN  IF url # ""
            THEN m_result.found /\ m_result.form470_url = url
            ELSE /\ ~m_result.found
                 /\ "form470_url" \notin DOMAIN m_result
                 /\ m_result.error = "No URL in record"

C10_Witness ==
    /\ m_pc = "returned"
    /\ m_queries # <<>>
    /\ OkResponse(m_resp)
    /\ Len(m_resp.data) = 2
    /\ m_resp.data[2] = [form_pdf |-> "http://x/y.pdf"]
    /\ ~m_result.found
    /\ m_result.error = "No URL in record"

\* C11: every dict search_form470 returns, on every path (no key, exception,
\* other status, no record, record without URL, record with URL), holds
\* form470_url if and only if found is TRUE, and then the URL is not empty.
C11_UrlIffFound ==
    m_pc = "returned" =>
        /\ "found" \in DOMAIN m_result
        /\ "form470_url" \in DOMAIN m_result <=> m_result.found
        /\ m_result.found => m_result.form470_url # ""

C11_Witness ==
    /\ m_pc = "returned"
    /\ m_queries # <<>>
    /\ OkResponse(m_resp)
    /\ m_resp.data # <<>>
    /\ form_pdf_of(m_resp.data[1]) = ""
    /\ ~m_result.found
    /\ "form470_url" \notin DOMAIN m_result

\* The text extract_form_info worked on, when the decoder gave one.
Extracted_text == e_pc = "returned" /\ e_text # DecodeRaises

\* A string of one or more digits.
IsDigitString(s) == s # <<>> /\ \A i \in DOMAIN s : s[i] \in Digits

\* The first standalone run of exactly n digits of the text (a digit run with
\* no digit before or after it), None if there is none.
StandaloneRun(text, n) ==
    LET starts == {a \in 1..(Len(text) - n + 1) :
                      /\ \A k \in a..(a + n - 1) : text[k] \in Digits
                      /\ a = 1 \/ text[a - 1] \notin Digits
                      /\ a + n > Len(text) \/ text[a + n] \notin Digits}
    IN  IF starts = {} THEN None ELSE SubSeq(text, SetMin(starts), SetMin(starts) + n - 1)

\* C12: what extract_form_info returns is either the empty dict or holds all of
\* application_number (a non-empty digit string), form_type (471, 470 or
\* unknown) and billed_entity_name, and nothing else but the establishing
\* Form 470 number, which only a Form 471 record holds; when the decoder
\* raises, the dict is empty.
C12_RecordEmptyOrComplete ==
    e_pc = "returned" =>
        /\ e_text = DecodeRaises => DOMAIN e_result = {}
        /\ \/ DOMAIN e_result = {}
           \/ /\ {"application_number", "form_type", "billed_entity_name"}
                    \subseteq DOMAIN e_result
              /\ DOMAIN e_result \subseteq
                    {"application_number", "form_type", "billed_entity_name",
                     "establishing_form470_number"}
              /\ IsDigitString(e_result.application_number)
              /\ e_result.form_type \in {L_471, L_470, L_unknown}
              /\ "establishing_form470_number" \in DOMAIN e_result =>
                    /\ e_result.form_type = L_471
                    /\ IsDigitString(e_result.establishing_form470_number)

C12_Witness ==
    /\ e_pc = "returned"
    /\ DOMAIN e_result = {"application_number", "form_type", "billed_entity_name"}
    /\ e_result.form_type = L_470
    /\ Contains(lower(e_text), L_establishing_fcc_form_470)

\* C13: the application number is the digit run after the label "Application
\* Number" when the text has one; otherwise the first standalone run of
\* exactly 9 digits; and when the text has neither, the dict returned is empty.
C13_ApplicationNumberRule ==
    Extracted_text =>
        LET labelled == LabelDigits(e_text, L_application_number)
            alone == StandaloneRun(e_text, 9)
        IN  IF labelled # None
            THEN DOMAIN e_result # {} /\ e_result.application_number = labelled
            ELSE IF alone # None
            THEN DOMAIN e_result # {} /\ e_result.application_number = alone
            ELSE DOMAIN e_result = {}

\* C14: the establishing Form 470 number is looked for only in a Form 471, and
\* is the digits after "Establishing FCC Form 470", else those after the
\* looser "Establishing ... Form 470", else the first standalone run of exactly
\* 15 digits; when none of the three exists the key is absent from the
\* (non-empty) record.
C14_EstablishingNumberRule ==
    (Extracted_text /\ DOMAIN e_result # {}) =>
        LET m1 == LabelDigits(e_text, L_establishing_fcc_form_470)
            m2 == LooseEstablishing(e_text)
            m3 == StandaloneRun(e_text, 15)
            expected == IF e_result.form_type # L_471 THEN None
                        ELSE IF m1 # None THEN m1
                        ELSE IF m2 # None THEN m2
                        ELSE m3
        IN  IF expected = None
            THEN "establishing_form470_number" \notin DOMAIN e_result
            ELSE /\ "establishing_form470_number" \in DOMAIN e_result
                 /\ e_result.establishing_form470_number = expected

\* C15: the form type is 471 when the lowered text holds "form 471" or "471",
\* even if it also holds "form 470" or "470"; otherwise 470 when it holds
\* "form 470" or "470"; otherwise unknown.
C15_FormTypeOrdered ==
    (Extracted_text /\ DOMAIN e_result # {}) =>
        LET has471 == \E p \in DOMAIN e_text : AtI(e_text, p, L_471)
            has470 == \E p \in DOMAIN e_text : AtI(e_text, p, L_470)
        IN  e_result.form_type = IF has471 THEN L_471
                                 ELSE IF has470 THEN L_470 ELSE L_unknown

C15_Witness ==
    /\ Extracted_text
    /\ DOMAIN e_result # {}
    /\ Contains(lower(e_text), L_form_470)
    /\ Contains(lower(e_text), L_form_471)
    /\ e_result.form_type = L_471

\* The positions of the item's attachments whose name ends in ".pdf".
PdfNamedAttachments(item) ==
    {a \in DOMAIN item.attachments : PdfNamed(item.attachments[a])}

\* C16: when the item has an attachment whose name ends in ".pdf", the locator
\* fetches the first such attachment and nothing else, and that fetch decides
\* what it returns: a path if it succeeded, None if it failed.
C16_FirstPdfAttachmentDecides ==
    (InRun /\ Called("download_pdf_from_task")
       /\ PdfNamedAttachments(tasks[task_id]) # {}) =>
        LET first == tasks[task_id].attachments[
                        SetMin(PdfNamedAttachments(tasks[task_id]))]
        IN  /\ Len(fetches) <= 1
            /\ \A i \in DOMAIN fetches :
                  /\ fetches[i].url = first.download_url
                  /\ FetchOk(fetches[i].outcome) <=> pdf_path # None
            /\ pdf_path # None => fetches # <<>>

\* The tick's entries of the log that are about the item t.
LogOf(t) == {i \in DOMAIN tick_log : tick_log[i].task = t}

\* The place of the item t in the backlog fetched.
PlaceOf(t) == CHOOSE k \in DOMAIN qa_tasks : qa_tasks[k] = t

\* The items of the tick's backlog whose terminal operation has been called.
ItemsEnded ==
    {k \in DOMAIN qa_tasks : \E j \in LogOf(qa_tasks[k]) : tick_log[j].op \in TerminalOps}

\* C17: the shutdown flag of the driver's module is tested by the while
\* condition and by the `if` before the sleep only. A tick is left by the
\* driver returning or by an exception, never because the flag is set, and a
\* tick that returns has called the terminal operation of every item of its
\* backlog; once the flag is set it stays set, no sleep is entered and no
\* further tick is started.
C17_CancellationBetweenTicksOnly ==
    /\ [](w_pc = "tick" /\ pc = "done" => ItemsEnded = DOMAIN qa_tasks)
    /\ [][(shutdown_flag[driver] /\ w_pc = "tick" /\ w_pc' # "tick") =>
             (pc = "done" \/ pc' = "except")]_vars
    /\ [][shutdown_flag[driver] =>
             /\ shutdown_flag'[driver]
             /\ run_count' = run_count
             /\ w_pc # "sleep" => w_pc' # "sleep"
             /\ w_pc # "tick" => w_pc' # "tick"]_vars

\* The flag was set while the tick was running, and the tick has run its two
\* items to their terminal operations.
C17_Witness ==
    /\ w_pc = "tick"
    /\ pc = "done"
    /\ shutdown_flag[driver]
    /\ Len(qa_tasks) = 2
    /\ ItemsEnded = {1, 2}

\* C18: an exception raised while a tick is serviced is caught: the tick ends
\* there with the store as it was, no stage is called for the items left, the
\* loop goes on to `if not shutdown_flag: time.sleep(60)`, the sleep lasts 60
\* seconds, and the next tick starts with a fresh call of get_qa_tasks. The
\* loop ends only with the flag set.
C18_TickFailureIsolated ==
    /\ [][(pc # "except" /\ pc' = "except") =>
             /\ w_pc = "tick" /\ w_pc' = "if_sleep"
             /\ asana' = asana /\ files' = files
             /\ qa_tasks' = qa_tasks /\ idx' = idx]_vars
    /\ [][(pc = "except" /\ pc' # "except") =>
             /\ w_pc = "while" /\ w_pc' = "tick"
             /\ ~shutdown_flag[driver]
             /\ pc' = "get_qa_tasks"
             /\ qa_tasks' = <<>>
             /\ run_count' = run_count + 1]_vars
    /\ [][(pc = "except" /\ w_pc = "if_sleep" /\ w_pc' # w_pc) =>
             w_pc' = IF shutdown_flag[driver] THEN "while" ELSE "sleep"]_vars
    /\ [][(w_pc = "sleep" /\ w_pc' # w_pc) =>
             (w_pc' = "while" /\ clock' = clock + SleepSeconds)]_vars
    /\ [][pc = "except" => asana' = asana]_vars
    /\ [](w_pc = "stopped" => shutdown_flag[driver])

\* The exception was raised while the first of two items was in work, the
\* second one was skipped, the sleep has been taken and the loop is back at
\* its test with the flag not set.
C18_Witness ==
    /\ pc = "except"
    /\ w_pc = "while"
    /\ clock = SleepSeconds
    /\ Len(qa_tasks) = 2
    /\ idx = 1
    /\ run_count < MaxTicks
    /\ ~shutdown_flag[driver]

\* C19: in a tick the backlog is fetched once, before anything else, and the
\* items are worked on one after the other in the order of the list: the first
\* call for an item (its move to Processing) comes directly after the last call
\* for the item before it in the list, which by then has had its terminal
\* operation called; so at most one item of the tick has no terminal call yet.
C19_SequentialInListOrder ==
    pc \notin {"off", "get_qa_tasks", "except"} =>
        /\ tick_log # <<>>
        /\ \A i \in DOMAIN tick_log : tick_log[i].op = "get_qa_tasks" <=> i = 1
        /\ \A i \in 2..Len(tick_log) :
              /\ tick_log[i].task \in {qa_tasks[k] : k \in 1..idx}
              /\ i > 2 =>
                    \/ tick_log[i].task = tick_log[i - 1].task
                    \/ /\ PlaceOf(tick_log[i].task) = PlaceOf(tick_log[i - 1].task) + 1
                       /\ tick_log[i].op = "move_task_to_processing"
                       /\ \E j \in LogOf(tick_log[i - 1].task) :
                             tick_log[j].op \in TerminalOps
        /\ \A k \in 1..(idx - 1) :
              \E j \in LogOf(qa_tasks[k]) : tick_log[j].op \in TerminalOps

C19_Witness ==
    /\ pc = "done"
    /\ w_pc = "off"
    /\ Len(qa_tasks) = 2
    /\ Len(tick_log) = 7
    /\ tick_log[4].op = "move_task_to_issues"
    /\ tick_log[4].task = qa_tasks[1]
    /\ tick_log[5].op = "move_task_to_processing"
    /\ tick_log[5].task = qa_tasks[2]

\* The last stage call of the run in progress.
LastCall == calls[Len(calls)]

\* The stages that never move the item: whatever their collaborator does, a
\* failure gives the stage's failure value ([] for the backlog, None for the
\* locator with no source left, {} for the extractor, found False for the
\* matcher, False for completion and the sub-task).
FailureValueOfOtherStages ==
    /\ pc = "get_qa_tasks" => get_qa_tasks(asana, sections, TRUE) = <<>>
    /\ pc = "download_pdf_from_task" =>
          \A outcomes \in [1..MaxFetches(tasks[task_id]) -> FetchOutcomes] :
             download_pdf_from_task(tasks[task_id], gid(task_id), files, TRUE,
                                    outcomes).ret = None
    /\ (calls # <<>> /\ LastCall.op = "download_pdf_from_task") =>
          /\ pdf_path = None \/ pdf_path \in {f.path : f \in files}
          /\ (fetches # <<>> /\ ~FetchOk(fetches[Len(fetches)].outcome)) =>
                pdf_path = None
    /\ (calls # <<>> /\ LastCall.op = "extract_form_info") =>
          \A f \in files :
             (f.path = pdf_path /\ Docs[f.content] = DecodeRaises) =>
                form_info = EmptyDict
    /\ pc = "search_form470" =>
          \A resp \in RegistryResponses :
             ~OkResponse(resp) => ~search_form470(form_info, resp).found
    /\ pc = "mark_task_complete" =>
          \A raises \in CompleteRaises :
             (raises.update \/ raises.comment) =>
                ~mark_task_complete(asana, task_id, "None", raises).ret
    /\ pc = "create_manual_review_subtask" =>
          \A raises \in SubtaskRaises, workspace \in BOOLEAN :
             (raises.find \/ raises.create) =>
                ~create_manual_review_subtask(asana, task_id, form_info, raises,
                                              workspace).ret

\* The failures of the Task Store a move reaches: sections.find_by_project,
\* and once the target section is found, sections.add_task and then
\* tasks.add_comment (in move_task_to_processing the comment is only made
\* after a failed add_task).
MoveFailed(raises, section) ==
    raises.find \/ (section # 0 /\ (raises.move \/ raises.comment))

AtMove ==
    pc \in {"move_task_to_processing", "move_task_to_manual_followup",
            "move_task_to_issues"}

\* What the move about to be called returns and leaves in the store, when the
\* client calls named by raises fail.
MoveCall(raises) ==
    CASE pc = "move_task_to_processing" ->
            move_task_to_processing(asana, sections, task_id, raises)
      [] pc = "move_task_to_manual_followup" ->
            move_task_to_manual_followup(asana, sections, task_id,
                                         FollowupReason(driver, search_result), raises)
      [] pc = "move_task_to_issues" ->
            move_task_to_issues(asana, sections, task_id,
                                IssueReason(driver, pdf_path), raises)

\* The section the move about to be called looks for, 0 when the project has
\* none.
MoveTarget ==
    CASE pc = "move_task_to_processing" -> find_section(sections, L_processing)
      [] pc = "move_task_to_manual_followup" ->
            find_section(sections, L_manual_follow_up)
      [] pc = "move_task_to_issues" -> find_section(sections, L_issues)

\* The reason passed to the move about to be called ("" for Processing).
MoveReason ==
    CASE pc = "move_task_to_processing" -> ""
      [] pc = "move_task_to_manual_followup" -> FollowupReason(driver, search_result)
      [] pc = "move_task_to_issues" -> IssueReason(driver, pdf_path)

\* C21: when a move cannot move the item, because its target section is not
\* found or because sections.add_task fails, and the Task Store otherwise
\* works, the move leaves the item where it is, appends one note to it and
\* returns False.
C21_FailedMoveLeavesNoteAndFalse ==
    AtMove =>
        \A raises \in MoveRaises :
           (~raises.find /\ ~raises.comment /\ (MoveTarget = 0 \/ raises.move)) =>
               LET r == MoveCall(raises)
               IN  /\ r.ret = FALSE
                   /\ r.store.section = asana.section
                   /\ Len(r.store.comments[task_id]) = Len(asana.comments[task_id]) + 1

\* C22: a transition that succeeds (the operation returns True) has put the
\* item in its target category and appended exactly one note to it; the note
\* of a terminal transition holds the reason, or the matched URL, passed in.
C22_TransitionMovesAndNotes ==
    /\ AtMove =>
          \A raises \in MoveRaises :
             LET r == MoveCall(raises)
                 notes == r.store.comments[task_id]
             IN  r.ret =>
                    /\ MoveTarget # 0
                    /\ r.store.section[task_id] = MoveTarget
                    /\ Len(notes) = Len(asana.comments[task_id]) + 1
                    /\ pc # "move_task_to_processing" =>
                          notes[Len(notes)].value = MoveReason
    /\ pc = "mark_task_complete" =>
          \A raises \in CompleteRaises :
             LET r == mark_task_complete(asana, task_id, search_result.form470_url,
                                         raises)
                 notes == r.store.comments[task_id]
             IN  r.ret =>
                    /\ r.store.completed[task_id]
                    /\ Len(notes) = Len(asana.comments[task_id]) + 1
                    /\ notes[Len(notes)].value = search_result.form470_url

\* The items of the project.
Items == DOMAIN asana.section

\* C23: a step that changes the section of an item never puts it in the
\* backlog section; it is made by move_task_to_processing on an item of the
\* backlog, or by the one terminal operation of the run on the item (no
\* terminal operation was called for it before in the run). The completed
\* mark is only ever set, and only by that one terminal operation.
C23_CategoryOnlyMovesForward ==
    [][\A t \in Items :
          /\ asana'.section[t] # asana.section[t] =>
                /\ ~IsQaSection(sections, asana'.section[t])
                /\ t = task_id
                /\ TerminalCalls = {}
                /\ pc = "move_task_to_processing" =>
                      IsQaSection(sections, asana.section[t])
                /\ pc # "move_task_to_processing" => pc \in TerminalOps
          /\ asana'.completed[t] # asana.completed[t] =>
                /\ asana'.completed[t]
                /\ t = task_id
                /\ TerminalCalls = {}
                /\ pc = "mark_task_complete"]_vars

\* The item went from the backlog to Processing and from there to Issues.
C23_Witness ==
    /\ pc = "return"
    /\ w_pc = "off"
    /\ Len(calls) >= 2
    /\ calls[1].op = "move_task_to_processing"
    /\ calls[1].ret = TRUE
    /\ LastCall.op = "move_task_to_issues"
    /\ LastCall.ret = TRUE
    /\ find_section(sections, L_processing) # find_section(sections, L_issues)
    /\ asana.section[task_id] = find_section(sections, L_issues)
    /\ Len(asana.comments[task_id]) = 1

\* C24: the run on an item starts with move_task_to_processing, called once,
\* before the locator and before any terminal operation, for every item of the
\* backlog; whatever it returns, the next call is download_pdf_from_task.
C24_ProcessingFirstAndUnconditional ==
    (InRun /\ pc \notin {"done", "except", "off"}) =>
        /\ calls = <<>> <=> pc = "move_task_to_processing"
        /\ \A i \in DOMAIN calls : calls[i].op = "move_task_to_processing" <=> i = 1
        /\ Len(calls) = 1 => pc = "download_pdf_from_task"
        /\ Len(calls) >= 2 => calls[2].op = "download_pdf_from_task"
        /\ \A k \in 1..idx :
              LogOf(qa_tasks[k]) # {} =>
                 tick_log[SetMin(LogOf(qa_tasks[k]))].op = "move_task_to_processing"

\* The move to Processing returned False and the locator was called all the
\* same, and found the document.
C24_Witness ==
    /\ Len(calls) >= 2
    /\ calls[1].op = "move_task_to_processing"
    /\ calls[1].ret = FALSE
    /\ calls[2].op = "download_pdf_from_task"
    /\ calls[2].ret # None

\* C25: the reason of a move to Issues made after the locator returned None
\* states why: an item with no document (no GET was issued) gets the reason
\* for a missing document, and an item whose GET failed gets another reason
\* than that one.
C25_ReasonStatesLocatorCause ==
    (calls # <<>> /\ LastCall.op = "move_task_to_issues" /\ pdf_path = None) =>
        /\ fetches = <<>> => LastCall.arg = IssueReason(driver, None)
        /\ fetches # <<>> => LastCall.arg # IssueReason(driver, None)

\* No client call fails.
NoMoveRaises == [find |-> FALSE, move |-> FALSE, comment |-> FALSE]
NoCompleteRaises == [update |-> FALSE, comment |-> FALSE]
NoSubtaskRaises == [find |-> FALSE, create |-> FALSE]

\* The notes of item t written from the template given.
NotesOf(t, template) ==
    {i \in DOMAIN asana.comments[t] : asana.comments[t][i].template = template}

\* C27: no operation looks at what the item already carries: with a working
\* Task Store, create_manual_review_subtask creates one more sub-task,
\* move_task_to_manual_followup appends one more note and mark_task_complete
\* appends one more completion note, also when the item already has a
\* sub-task, a follow-up note, or is already completed; a second run with the
\* same outcome thus doubles them.
C27_NoGuardAgainstDuplicates ==
    /\ pc = "create_manual_review_subtask" =>
          LET r == create_manual_review_subtask(asana, task_id, form_info,
                                                NoSubtaskRaises, TRUE)
          IN  /\ r.ret
              /\ Len(r.store.subtasks) = Len(asana.subtasks) + 1
              /\ r.store.subtasks[Len(r.store.subtasks)].parent = task_id
    /\ (pc = "move_task_to_manual_followup" /\ MoveTarget # 0) =>
          LET r == MoveCall(NoMoveRaises)
          IN  /\ r.ret
              /\ Len(r.store.comments[task_id]) = Len(asana.comments[task_id]) + 1
    /\ pc = "mark_task_complete" =>
          LET r == mark_task_complete(asana, task_id, search_result.form470_url,
                                      NoCompleteRaises)
          IN  /\ r.ret
              /\ Len(r.store.comments[task_id]) = Len(asana.comments[task_id]) + 1

\* Two ticks ran on the same item with the ManualFollowup outcome: it has two
\* sub-tasks and two follow-up notes.
C27_Witness ==
    /\ w_pc = "tick"
    /\ pc = "return"
    /\ Len(asana.subtasks) = 2
    /\ asana.subtasks[1].parent = task_id
    /\ asana.subtasks[2].parent = task_id
    /\ Cardinality(NotesOf(task_id, "Task moved to Manual Follow-up Required")) = 2

\* The notes the three terminal operations write.
TerminalNotes ==
    {"Task completed successfully!", "Task moved to Manual Follow-up Required",
     "Task moved to Issues section"}

\* The item t carries the trace of a terminal outcome: it is completed, or has
\* a note of a terminal operation.
HasTerminalOutcome(t) ==
    \/ asana.completed[t]
    \/ \E i \in DOMAIN asana.comments[t] : asana.comments[t][i].template \in TerminalNotes

\* C29: the backlog a tick has just fetched holds only items of the section
\* named 'qa', each once, and none that was given a terminal outcome by an
\* earlier tick.
C29_TerminalItemsNotRefetched ==
    (w_pc = "tick" /\ pc = "move_task_to_processing" /\ Len(tick_log) = 1) =>
        /\ \A k \in DOMAIN qa_tasks :
              /\ IsQaSection(sections, asana.section[qa_tasks[k]])
              /\ \A j \in DOMAIN qa_tasks : qa_tasks[j] = qa_tasks[k] => j = k
        /\ \A k \in DOMAIN qa_tasks : ~HasTerminalOutcome(qa_tasks[k])

\* The keyword of the move about to be called.
MoveKeyword ==
    CASE pc = "move_task_to_processing" -> L_processing
      [] pc = "move_task_to_manual_followup" -> L_manual_follow_up
      [] pc = "move_task_to_issues" -> L_issues

\* The section s of the project has 'qa' and the keyword in its name, in any
\* case of the letters.
NameMatches(s, keyword) ==
    /\ \E p \in 1..Len(sections[s]) : AtI(sections[s], p, L_qa)
    /\ \E p \in 1..Len(sections[s]) : AtI(sections[s], p, keyword)

\* C30: with a working Task Store a move puts the item in the first section of
\* the project, in the project's order, whose name holds 'qa' and the move's
\* keyword in any case of the letters, and leaves it where it is when there is
\* none; the section named 'QA' is never the target.
C30_TargetIsFirstMatchingSection ==
    AtMove =>
        LET r == MoveCall(NoMoveRaises)
            matching == {s \in DOMAIN sections : NameMatches(s, MoveKeyword)}
        IN  /\ matching = {} => (~r.ret /\ r.store = asana)
            /\ matching # {} =>
                  /\ r.ret
                  /\ r.store.section[task_id] \in matching
                  /\ \A s \in matching : r.store.section[task_id] <= s
                  /\ ~IsQaSection(sections, r.store.section[task_id])

\* The item was moved to the section 'qa issues processing', the first of two
\* sections that have 'qa' and 'issues' in their names.
C30_Witness ==
    /\ calls # <<>>
    /\ LastCall.op = "move_task_to_issues"
    /\ LastCall.ret = TRUE
    /\ Cardinality({s \in DOMAIN sections :
                       Contains(lower(sections[s]), L_qa)
                          /\ Contains(lower(sections[s]), L_issues)}) = 2
    /\ asana.section[LastCall.task] = 1
    /\ ~IsQaSection(sections, 1)

\* C26: with ASANA_API_KEY or ASANA_PROJECT_ID missing from the environment
\* the process halts at startup: no tick is started and get_qa_tasks is never
\* called.
C26_MissingConfigurationHalts ==
    ~AsanaConfigured(env) =>
        /\ w_pc \in {"startup", "exited"}
        /\ run_count = 0
        /\ tick_log = <<>>

\* C28: under the language-model harness mark_task_complete is called only
\* after a search_form470 call that returned found True, and
\* move_task_to_manual_followup only after an extract_form_info call that
\* returned a record of form type 471 and a search_form470 call that returned
\* found False.
C28_HarnessKeepsTransitionRules ==
    driver = Harness =>
        \A i \in DOMAIN calls :
           /\ calls[i].op = "mark_task_complete" =>
                 \E j \in 1..(i - 1) :
                    calls[j].op = "search_form470" /\ calls[j].ret.found
           /\ calls[i].op = "move_task_to_manual_followup" =>
                 /\ \E j \in 1..(i - 1) :
                       /\ calls[j].op = "extract_form_info"
                       /\ Get(calls[j].ret, "form_type") = L_471
                 /\ \E j \in 1..(i - 1) :
                       calls[j].op = "search_form470" /\ ~calls[j].ret.found

\* C31: when the selection rule gives no key (no application number, and no
\* establishing number on a Form 471), search_form470 issues no registry
\* request and returns found = FALSE with an error and without search_number.
C31_NoKeyNoQuery ==
    (m_pc = "returned" /\ ~Truthy(SelectedKey(m_form))) =>
        /\ m_queries = <<>>
        /\ m_result.found = FALSE
        /\ "error" \in DOMAIN m_result
        /\ "search_number" \notin DOMAIN m_result

\* A Form 470 record with an establishing number and no application number.
C31_Witness ==
    /\ m_pc = "returned"
    /\ Get(m_form, "form_type") = L_470
    /\ Truthy(Get(m_form, "establishing_form470_number"))
    /\ "application_number" \notin DOMAIN m_form
    /\ m_queries = <<>>
    /\ DOMAIN m_result = {"found", "error"}

\* C32: after a transport failure or a response with another status than 200
\* the result has found = FALSE, an error, and a search_number equal to the
\* key the request was made with, for every form record.
C32_FailureKeepsQueriedKey ==
    (m_pc = "returned" /\ m_queries # <<>>
       /\ (m_resp.raises \/ m_resp.status_code # 200)) =>
        /\ m_result.found = FALSE
        /\ "error" \in DOMAIN m_result
        /\ "search_number" \in DOMAIN m_result
        /\ m_result.search_number = SelectedKey(m_form)
        /\ m_result.search_number = m_queries[1].where_value

\* The calls of the locator that stored a file.
Stored == {i \in DOMAIN calls : calls[i].ret # None}

\* The file names the locator can store for a task: its .pdf attachments and
\* the last segment of the .pdf URL of its notes.
SourceNames(task) ==
    {task.attachments[a].name : a \in PdfNamedAttachments(task)}
       \cup (IF NotesPdfUrl(task) # None THEN {LastSegment(NotesPdfUrl(task))} ELSE {})

\* C33: a fetched document is stored at temp_dir/<task id>_<file name>. The
\* temporary area holds one file per path: storing again for the same task and
\* file name replaces the file (the last content written is the one kept), so
\* the number of files is the number of distinct paths ever returned; and no
\* path is returned for two different tasks.
C33_PathKeyedByItemAndName ==
    pc = "locate" =>
        /\ \A i \in Stored :
              \E name \in SourceNames(LocateTasks[calls[i].task].task) :
                 calls[i].ret = temp_dir \o L_slash \o calls[i].arg \o L_underscore \o name
        /\ \A i, j \in Stored : calls[i].ret = calls[j].ret => calls[i].task = calls[j].task
        /\ {f.path : f \in files} = {calls[i].ret : i \in Stored}
        /\ Cardinality(files) = Cardinality({calls[i].ret : i \in Stored})
        /\ (Stored # {} /\ calls[Len(calls)].ret # None) =>
              \E f \in files :
                 /\ f.path = pdf_path
                 /\ f.content = fetches[Len(fetches)].outcome.content

\* The locator stored a.pdf for the same task twice, with different bytes:
\* one file is kept, and it holds the bytes written last.
C33_Witness ==
    /\ pc = "locate"
    /\ Len(calls) = 2
    /\ calls[1].task = calls[2].task
    /\ calls[1].ret # None
    /\ calls[1].ret = calls[2].ret
    /\ Cardinality(files) = 1
    /\ \E f \in files : f.content = 2
    /\ fetches[Len(fetches)].outcome.content = 2

\* The flag the loop of the running driver reads.
FlagSet == shutdown_flag[driver]

\* With the flag set no tick and no sleep begins: what is in flight ends.
NothingBeginsOnceSet ==
    FlagSet =>
        /\ ~(w_pc # "tick" /\ w_pc' = "tick")
        /\ ~(w_pc # "sleep" /\ w_pc' = "sleep")

\* A tick begins at the head of the loop, a sleep begins after the tick has
\* ended, and the clock moves only when a sleep ends, by 60.
OneSleepBetweenTicks ==
    /\ (w_pc # "tick" /\ w_pc' = "tick") => (w_pc = "while" /\ run_count' = run_count + 1)
    /\ (w_pc # "sleep" /\ w_pc' = "sleep") => (w_pc = "if_sleep" /\ pc \in {"off", "except"})
    /\ clock' # clock => (w_pc = "sleep" /\ w_pc' = "while" /\ clock' = clock + SleepSeconds)

\* Tick n begins and ends at 60 * (n - 1): one sleep after each earlier tick.
TicksAreSleepsApart ==
    w_pc \in {"tick", "if_sleep", "sleep"} => clock = SleepSeconds * (run_count - 1)

\* C34: once the shutdown flag of the driver is set, run_watcher_mode
\* eventually returns (every stage call terminating); with the flag set no new
\* tick and no new sleep begins, so at most the tick in flight and the sleep in
\* progress complete; and tick n runs at clock 60 * (n - 1): consecutive ticks
\* are separated by exactly one sleep of 60, begun after the earlier tick ended.
C34_ShutdownLiveness ==
    /\ FlagSet ~> (w_pc = "stopped")
    /\ [][NothingBeginsOnceSet /\ OneSleepBetweenTicks]_vars
    /\ []TicksAreSleepsApart

\* The flag was set while the first tick was running; the tick ran to its end
\* and the watcher returned without sleeping and without a second tick.
C34_Witness ==
    /\ FlagSet
    /\ w_pc = "stopped"
    /\ run_count = 1
    /\ clock = 0
    /\ Len(asana.comments[1]) > 0

\* process_single_task has returned for the current item.
SingleTaskReturned ==
    driver = "intelligent_qa_agent" /\ pc = "return" /\ calls # <<>>

\* result = process_single_task(task_id, task_name)
result == process_single_task_result(LastCall.op)

\* C35: the label process_single_task returns agrees with the Task Store:
\* "COMPLETED" only if mark_task_complete returned True and the item is
\* completed, "MANUAL_FOLLOWUP" only if the move to Manual Follow-up and the
\* creation of the sub-task both returned True, "ISSUES" only if the move to
\* Issues returned True.
C35_LabelAgreesWithStore ==
    SingleTaskReturned =>
        /\ result = "COMPLETED" => (LastCall.ret = TRUE /\ asana.completed[task_id])
        /\ result = "MANUAL_FOLLOWUP" =>
              /\ LastCall.ret = TRUE
              /\ \E s \in DOMAIN asana.subtasks : asana.subtasks[s].parent = task_id
              /\ \A i \in DOMAIN calls :
                    calls[i].op = "move_task_to_manual_followup" => calls[i].ret = TRUE
        /\ result = "ISSUES" => LastCall.ret = TRUE

\* Where the label "Billed Entity Name" occurs in the text given to the extractor.
EntityLabelStarts == {p \in 1..Len(e_text) : AtI(e_text, p, L_billed_entity_name)}

\* What is left of the line of the first label after the label and its colon,
\* trimmed.
RestOfLabelLine ==
    LET a == SetMin(EntityLabelStarts) + Len(L_billed_entity_name)
        eol == SkipUntil(e_text, a, {"\n"})
        b == SkipWhile(e_text, a, SepChars \ {"\n"})
    IN  IF b >= eol THEN <<>> ELSE strip(SubSeq(e_text, b, eol - 1))

\* C36: the billed entity name of a record is the trimmed remainder of the
\* line the label "Billed Entity Name" is on (or "Unknown" when nothing is
\* left of that line), never text of a following line; without the label it is
\* "Unknown"; and a text that lacks the name still gives a record when it has
\* an application number.
C36_EntityFromLabelLine ==
    (e_pc = "returned" /\ e_text # DecodeRaises) =>
        /\ (e_result = EmptyDict) <=> (application_number_of(e_text) = None)
        /\ (e_result # EmptyDict /\ EntityLabelStarts = {}) =>
              e_result.billed_entity_name = L_Unknown
        /\ (e_result # EmptyDict /\ EntityLabelStarts # {}) =>
              e_result.billed_entity_name \in {RestOfLabelLine} \cup
                 (IF RestOfLabelLine = <<>> THEN {L_Unknown} ELSE {})

====
